---------------------------- MODULE Spec2Model ----------------------------
(***************************************************************************)
(* A model of the dataset cleaning pipeline of training-data/scripts.      *)
(*                                                                         *)
(* Text is a sequence of Unicode code points (Python's ord of each         *)
(* character); a regular expression of the source is a sequence of atoms   *)
(* (a character class with a repetition count, or a line anchor), written  *)
(* atom for atom from the source's pattern string, and matched by one      *)
(* backtracking matcher with the semantics of Python's re module.          *)
(***************************************************************************)
EXTENDS Integers, Sequences, FiniteSets, TLC

VARIABLES
  stats,         \* DatasetCleaner.stats
  pc,            \* where run() stands
  split,         \* clean_dataset: the index in splits of the current file
  processed,     \* clean_dataset: documents of this file processed
  kept,          \* clean_dataset: documents of this file kept
  output,        \* lines written to each output file, -1 where there is none
  invalid_json,  \* "Invalid JSON" warnings logged
  lines_read,    \* input lines read so far, over all files
  current,       \* the document last handed to process_document, 0 for none
  scored,        \* what calculate_quality_score returned for it
  result,        \* what that call returned
  report,        \* quality_report.json, None before it is written
  sample,        \* documents in sample_inspection.txt, -1 when not written
  raw,           \* SpecClean: the string handed to clean_text
  once,          \* SpecClean: clean_text(raw), or NotRun
  twice,         \* SpecClean: clean_text(clean_text(raw)), or NotRun
  all_content,   \* SpecSplit: the documents handed to create_training_splits
  all_docs,      \* SpecSplit: all_docs after random.shuffle, or NotRun
  split_docs,    \* SpecSplit: train_docs, val_docs and test_docs, or NotRun
  previous,      \* SpecSplit: split_docs of an earlier run on all_content
  clean_docs,    \* SpecSplit: what clean_dataset keeps of each split file
  total,         \* SpecSizes: len(all_docs)
  sizes,         \* SpecSizes: len of train_docs, val_docs, test_docs
  workers,       \* SpecWorkers: each thread's place in process_document
  wanted,        \* SpecConfig: the thresholds the caller means to run with
  cleaner,       \* SpecConfig: the threshold attributes of the DatasetCleaner
  corpus,        \* SpecChunk: the all_content handed to create_corpus_chunks
  chunks,        \* SpecChunk: the corpus_chunk files written, None before
  fast,          \* SpecFast: the FastCleaner and where clean_all stands
  clones         \* SpecClone: the futures and tallies of clone_repositories

pipeline == <<stats, pc, split, processed, kept, output, invalid_json,
              lines_read, current, scored, result, report, sample>>
cleaning == <<raw, once, twice>>
splitting == <<all_content, all_docs, split_docs, previous, clean_docs>>
sizing   == <<total, sizes>>
configuring == <<wanted, cleaner>>
collecting == <<corpus, chunks, fast, clones>>
others   == <<splitting, sizing, workers, configuring, collecting>>
vars     == <<pipeline, cleaning, others>>

\* bounds of the model
MaxLines == 2         \* input lines read in one run
MaxParts == 5         \* parts of the strings handed to clean_text
\* the parts: "a", " ", "\n", "!", "\x01", "<b>"
Parts    == {<<97>>, <<32>>, <<10>>, <<33>>, <<1>>, <<60, 98, 62>>}

None    == [kind |-> "None"]
NoScore == <<-1, "">>
NotRun == <<-1>>

-----------------------------------------------------------------------------
(* Character classes of Python's re for str patterns.                      *)

\* \s and str.isspace: the Unicode whitespace characters
Space == (9..13) \cup (28..32) \cup {133, 160, 5760} \cup (8192..8202)
           \cup {8232, 8233, 8239, 8287, 12288}

\* \d restricted to the ASCII digits
Digit == 48..57

\* \w: ASCII letters, digits and underscore, and the Latin-1 letters
Word == Digit \cup (65..90) \cup {95} \cup (97..122) \cup {170, 181, 186}
           \cup (192..214) \cup (216..246) \cup (248..255)

\* str.lower of one character (ASCII and Latin-1)
Lower(c) ==
  IF c \in (65..90) \cup (192..214) \cup (216..222) THEN c + 32 ELSE c

\* the upper-case partner used by re.IGNORECASE
Upper(c) ==
  IF c \in (97..122) \cup (224..246) \cup (248..254) THEN c - 32 ELSE c

LowerText(t) == [i \in 1..Len(t) |-> Lower(t[i])] \o <<>>

-----------------------------------------------------------------------------
(* Regular expressions.                                                    *)

\* one literal character
Ch(c) == [kind |-> "rep", cs |-> {c}, neg |-> FALSE, lo |-> 1, hi |-> 1,
          unbounded |-> FALSE, lazy |-> FALSE]
\* a literal string, given by its code points
Str(codes) == [i \in 1..Len(codes) |-> Ch(codes[i])] \o <<>>
\* a class (cs, or its complement when neg) repeated lo..hi times, greedy
Rep(cs, neg, lo, hi) == [kind |-> "rep", cs |-> cs, neg |-> neg, lo |-> lo,
          hi |-> hi, unbounded |-> FALSE, lazy |-> FALSE]
\* a class repeated lo or more times, greedy:  x*  x+  x{lo,}
RepInf(cs, neg, lo) == [kind |-> "rep", cs |-> cs, neg |-> neg, lo |-> lo,
          hi |-> lo, unbounded |-> TRUE, lazy |-> FALSE]
\* a class repeated lo or more times, shortest first:  x*?
LazyInf(cs, neg, lo) == [kind |-> "rep", cs |-> cs, neg |-> neg, lo |-> lo,
          hi |-> lo, unbounded |-> TRUE, lazy |-> TRUE]
\* ^ under re.MULTILINE
Bol == [kind |-> "bol", cs |-> {}, neg |-> FALSE, lo |-> 0, hi |-> 0,
          unbounded |-> FALSE, lazy |-> FALSE]

\* an atom that consumes exactly one character
Single(a) == a.kind = "rep" /\ a.lo = 1 /\ a.hi = 1 /\ ~a.unbounded

\* the first atom at or after k that is not Single, or Len(atoms) + 1
NextRepeat(atoms, k) ==
  LET rest == {m \in k..Len(atoms) : ~Single(atoms[m])}
  IN  IF rest = {} THEN Len(atoms) + 1
      ELSE CHOOSE m \in rest : \A m2 \in rest : m <= m2

\* a compiled pattern: its atoms, whether re.IGNORECASE is set, and for each
\* atom where the run of Single atoms it starts ends
Re(atoms, ic) ==
  [atoms |-> atoms, ic |-> ic,
   next  |-> [k \in 1..Len(atoms) |-> NextRepeat(atoms, k)] \o <<>>]

InClass(a, ic, c) ==
  LET in == \/ c \in a.cs
            \/ ic /\ (Lower(c) \in a.cs \/ Upper(c) \in a.cs)
  IN  IF a.neg THEN ~in ELSE in

\* how many characters from position i on the atom a can consume at most:
\* up to the first character outside its class, the end of the text, or a.hi
MaxRun(t, i, a, ic) ==
  LET top == IF a.unbounded THEN Len(t)
             ELSE IF i + a.hi - 1 < Len(t) THEN i + a.hi - 1 ELSE Len(t)
      stop == CHOOSE j \in i..(top + 1) :
                /\ j = top + 1 \/ ~InClass(a, ic, t[j])
                /\ \A j2 \in i..(j - 1) : InClass(a, ic, t[j2])
  IN  IF i > top THEN 0 ELSE stop - i

\* ends[c] being where the match ends when the atom consumes c characters
\* and works the counts for which there is a match: the end for the count
\* re prefers, the smallest for a lazy atom and the largest for a greedy one
Preferred(lazy, works, ends) ==
  IF works = {} THEN -1
  ELSE IF lazy THEN ends[CHOOSE c \in works : \A d \in works : c <= d]
  ELSE ends[CHOOSE c \in works : \A d \in works : d <= c]

\* The match of atoms[k..] at position i: the index of the last character
\* matched (i - 1 for an empty match), or -1 when there is none.  The
\* repetition counts are tried in the order of re's backtracking: longest
\* first for a greedy atom, shortest first for a lazy one.
RECURSIVE MatchAt(_, _, _, _)
MatchAt(t, i, p, k) ==
  IF k > Len(p.atoms) THEN i - 1
  ELSE IF p.next[k] > k
  THEN \* the literal run atoms[k .. next[k] - 1]
       LET n == p.next[k] - k IN
       IF /\ i + n - 1 <= Len(t)
          /\ \A m \in 0..(n - 1) : InClass(p.atoms[k + m], p.ic, t[i + m])
       THEN MatchAt(t, i + n, p, k + n) ELSE -1
  ELSE IF p.atoms[k].kind = "bol"
  THEN IF i = 1 \/ t[i - 1] = 10 THEN MatchAt(t, i, p, k + 1) ELSE -1
  ELSE Preferred(p.atoms[k].lazy,
                 {c \in p.atoms[k].lo..MaxRun(t, i, p.atoms[k], p.ic) :
                    MatchAt(t, i + c, p, k + 1) # -1},
                 [c \in 0..(Len(t) + 1 - i) |-> MatchAt(t, i + c, p, k + 1)])

\* the characters that occur in t
Chars(t) == {t[i] : i \in 1..Len(t)}

\* No match of p exists unless every atom that must consume a character
\* finds one of its class among the characters of the text.
Feasible(p, chars) ==
  \A k \in 1..Len(p.atoms) :
    LET a == p.atoms[k]
    IN  (a.kind = "rep" /\ a.lo >= 1) => \E c \in chars : InClass(a, p.ic, c)

\* The positions where a match of p can start, in increasing order: those
\* the first atom accepts.
Positions(t) == [i \in 1..(Len(t) + 1) |-> i] \o <<>>

StartingWith(t, start) ==
  SelectSeq(Positions(t), LAMBDA i : i <= Len(t) /\ t[i] \in start)

Candidates(p, t, chars) ==
  IF p.atoms[1].kind = "bol"
  THEN SelectSeq(Positions(t), LAMBDA i : i = 1 \/ t[i - 1] = 10)
  ELSE IF p.atoms[1].lo >= 1
  THEN StartingWith(t, {c \in chars : InClass(p.atoms[1], p.ic, c)})
  ELSE Positions(t)

\* re.search(p, t) is not None, chars being Chars(t)
MatchesAt(p, t, at) == \E n \in 1..Len(at) : MatchAt(t, at[n], p, 1) # -1

SearchIn(p, t, chars) ==
  Feasible(p, chars) /\ MatchesAt(p, t, Candidates(p, t, chars))

Search(p, t) == SearchIn(p, t, Chars(t))

\* the match t[i..m] is replaced, unless there is none (m = -1) or it is
\* empty (m = i - 1)
Replace(t, repl, acc, i, m) ==
  IF m >= i
  THEN [out  |-> acc.out \o SubSeq(t, acc.skip + 1, i - 1) \o repl, skip |-> m]
  ELSE acc

\* One pass of re.sub, left to right over the candidate positions
\* at[lo..hi]: acc.out is the output for t[1..acc.skip], and acc.skip the
\* last position of the last match replaced.
RECURSIVE SubScan(_, _, _, _, _, _, _)
SubScan(t, p, repl, at, lo, hi, acc) ==
  IF lo > hi THEN acc
  ELSE IF acc.skip >= at[hi] THEN acc
  ELSE IF lo = hi
  THEN Replace(t, repl, acc, at[lo], MatchAt(t, at[lo], p, 1))
  ELSE SubScan(t, p, repl, at, ((lo + hi) \div 2) + 1, hi,
               SubScan(t, p, repl, at, lo, (lo + hi) \div 2, acc))

\* what follows the last match is copied
Finish(t, end) == end.out \o SubSeq(t, end.skip + 1, Len(t))

SubAt(p, repl, t, at) ==
  Finish(t, SubScan(t, p, repl, at, 1, Len(at), [out |-> <<>>, skip |-> 0]))

SubIn(p, repl, t, chars) ==
  IF ~Feasible(p, chars) THEN t ELSE SubAt(p, repl, t, Candidates(p, t, chars))

\* A pattern that is one character class repeated lo >= 1 or more times,
\* greedily, matches the maximal runs of lo or more characters of the class
\* and nothing else.
OneClass(p) ==
  /\ Len(p.atoms) = 1
  /\ p.atoms[1].kind = "rep" /\ p.atoms[1].unbounded /\ ~p.atoms[1].lazy
  /\ p.atoms[1].lo >= 1

\* t[i] lies in a run of at least a.lo characters of the class of a
InRun(t, i, a, ic) ==
  \E s \in (i - a.lo + 1)..i :
    /\ 1 <= s /\ s + a.lo - 1 <= Len(t)
    /\ \A j \in s..(s + a.lo - 1) : InClass(a, ic, t[j])

FirstOfRun == -2      \* stands for the first character of a run replaced
RestOfRun  == -3      \* stands for each other character of it

MarkRuns(t, a, ic) ==
  [i \in 1..Len(t) |->
     IF ~InRun(t, i, a, ic) THEN t[i]
     ELSE IF i > 1 /\ InClass(a, ic, t[i - 1]) THEN RestOfRun
     ELSE FirstOfRun] \o <<>>

PutForRuns(marked, repl) ==
  IF repl = <<>> THEN marked
  ELSE [i \in 1..Len(marked) |->
          IF marked[i] = FirstOfRun THEN repl[1] ELSE marked[i]] \o <<>>

\* re.sub(p, repl, t) for a OneClass pattern and a repl of one character
\* or none
SubRuns(p, repl, t) ==
  PutForRuns(SelectSeq(MarkRuns(t, p.atoms[1], p.ic),
                       LAMBDA c : c # RestOfRun /\ (repl # <<>> \/ c # FirstOfRun)),
             repl)

\* re.sub(p, repl, t) for a pattern that matches no empty string
Sub(p, repl, t) ==
  IF t = <<>> THEN t
  ELSE IF OneClass(p) /\ Len(repl) <= 1 THEN SubRuns(p, repl, t)
  ELSE SubIn(p, repl, t, Chars(t))

\* str.strip()
Between(t, keep) ==
  IF keep = {} THEN <<>>
  ELSE SubSeq(t, CHOOSE i \in keep : \A j \in keep : i <= j,
                 CHOOSE i \in keep : \A j \in keep : j <= i)

Strip(t) == Between(t, {i \in 1..Len(t) : t[i] \notin Space})

-----------------------------------------------------------------------------
(* DatasetCleaner.clean_text                                               *)

\* unicodedata.normalize('NFKC', c) of one character: the compatibility
\* characters below decompose, every other code point used here is in NFKC
NFKC(c) ==
  IF c = 160 THEN <<32>>                       \* NO-BREAK SPACE
  ELSE IF c = 8230 THEN <<46, 46, 46>>         \* HORIZONTAL ELLIPSIS
  ELSE IF c = 8252 THEN <<33, 33>>             \* DOUBLE EXCLAMATION MARK
  ELSE IF c = 64257 THEN <<102, 105>>          \* LATIN SMALL LIGATURE FI
  ELSE IF c \in 65281..65374 THEN <<c - 65248>> \* FULLWIDTH ASCII
  ELSE <<c>>

\* unicodedata.normalize('NFKC', t[lo..hi]): character for character where
\* every character becomes one character, by halves otherwise
RECURSIVE Normalize(_, _, _)
Normalize(t, lo, hi) ==
  IF lo > hi THEN <<>>
  ELSE IF \A i \in lo..hi : Len(NFKC(t[i])) = 1
  THEN [i \in 1..(hi - lo + 1) |-> NFKC(t[lo + i - 1])[1]] \o <<>>
  ELSE IF lo = hi THEN NFKC(t[lo])
  ELSE Normalize(t, lo, (lo + hi) \div 2)
         \o Normalize(t, ((lo + hi) \div 2) + 1, hi)

re_not_bmp     == Re(<<Rep((0..127) \cup (160..65535), TRUE, 1, 1)>>, FALSE)
re_whitespace  == Re(<<RepInf(Space, FALSE, 1)>>, FALSE)
re_blank_lines == Re(<<Ch(10), RepInf(Space, FALSE, 0), Ch(10),
                       RepInf(Space, FALSE, 0), Ch(10)>>, FALSE)
re_comment     == Re(<<Ch(60), Ch(33), Ch(45), Ch(45), LazyInf({}, TRUE, 0),
                       Ch(45), Ch(45), Ch(62)>>, FALSE)
re_script      == Re(<<Ch(60), Ch(115), Ch(99), Ch(114), Ch(105), Ch(112),
                       Ch(116), LazyInf({}, TRUE, 0), Ch(60), Ch(47), Ch(115),
                       Ch(99), Ch(114), Ch(105), Ch(112), Ch(116), Ch(62)>>,
                     TRUE)
re_style       == Re(<<Ch(60), Ch(115), Ch(116), Ch(121), Ch(108), Ch(101),
                       LazyInf({}, TRUE, 0), Ch(60), Ch(47), Ch(115), Ch(116),
                       Ch(121), Ch(108), Ch(101), Ch(62)>>, TRUE)
re_tag         == Re(<<Ch(60), RepInf({62}, TRUE, 1), Ch(62)>>, FALSE)
re_url         == Re(<<Ch(104), Ch(116), Ch(116), Ch(112), Rep({115}, FALSE, 0, 1),
                       Ch(58), Ch(47), Ch(47), RepInf(Space, TRUE, 1)>>, FALSE)
re_email       == Re(<<RepInf(Space, TRUE, 1), Ch(64), RepInf(Space, TRUE, 1),
                       Ch(46), RepInf(Space, TRUE, 1)>>, FALSE)
re_dots        == Re(<<RepInf({46}, FALSE, 3)>>, FALSE)
re_bangs       == Re(<<RepInf({33}, FALSE, 2)>>, FALSE)
re_questions   == Re(<<RepInf({63}, FALSE, 2)>>, FALSE)

URL_TOKEN   == <<91, 85, 82, 76, 93>>                \* "[URL]"
EMAIL_TOKEN == <<91, 69, 77, 65, 73, 76, 93>>        \* "[EMAIL]"

\* the four passes under "Remove common artifacts" and "Remove HTML tags"
RemoveMarkup(t) ==
  Sub(re_tag, <<>>, Sub(re_style, <<>>, Sub(re_script, <<>>,
      Sub(re_comment, <<>>, t))))

\* the two passes under "Remove excessive whitespace"
CollapseWhitespace(t) ==
  Sub(re_blank_lines, <<10, 10>>, Sub(re_whitespace, <<32>>, t))

\* the three passes under "Remove excessive punctuation"
CollapsePunctuation(t) ==
  Sub(re_questions, <<63>>, Sub(re_bangs, <<33>>, Sub(re_dots, <<46, 46, 46>>, t)))

\* the passes under "Replace URLs with placeholder" and "Replace email
\* addresses"
ReplaceAddresses(t) == Sub(re_email, EMAIL_TOKEN, Sub(re_url, URL_TOKEN, t))

\* clean_text without the passes under "Remove excessive whitespace"
clean_text_keeping_whitespace(text) ==
  IF text = <<>> THEN <<>>
  ELSE Strip(CollapsePunctuation(ReplaceAddresses(RemoveMarkup(
         Sub(re_not_bmp, <<>>, Normalize(text, 1, Len(text)))))))

\* the steps of clean_text in the order of the source, innermost first
clean_text(text) ==
  IF text = <<>> THEN <<>>
  ELSE Strip(CollapsePunctuation(ReplaceAddresses(RemoveMarkup(
         CollapseWhitespace(Sub(re_not_bmp, <<>>,
           Normalize(text, 1, Len(text))))))))

-----------------------------------------------------------------------------
(* DatasetCleaner.__init__: thresholds, pattern lists, allow-list          *)

min_word_count      == 50
max_word_count      == 50000
min_avg_word_length == 3
max_avg_word_length == 20
min_sentence_length == 10
\* max_broken_chars_ratio = 0.1, kept as the fraction 1 / 10
max_broken_chars_ratio == [num |-> 1, den |-> 10]

spam_patterns == <<
    Re(Str(<<114, 101, 100, 100, 105, 116, 46, 99, 111, 109>>), FALSE), \* r'reddit\.com'
    Re(Str(<<117, 112, 118, 111, 116, 101>>), FALSE),      \* r'upvote'
    Re(Str(<<100, 111, 119, 110, 118, 111, 116, 101>>), FALSE), \* r'downvote'
    Re(Str(<<107, 97, 114, 109, 97>>), FALSE),             \* r'karma'
    \* r'[0-9]+\s+points?'
    Re(<<RepInf((48..57), FALSE, 1), RepInf(Space, FALSE, 1)>> \o Str(<<112, 111, 105, 110, 116>>) \o <<Rep({115}, FALSE, 0, 1)>>, FALSE),
    Re(Str(<<112, 101, 114, 109, 97, 108, 105, 110, 107>>), FALSE), \* r'permalink'
    \* r'save\s+comment'
    Re(Str(<<115, 97, 118, 101>>) \o <<RepInf(Space, FALSE, 1)>> \o Str(<<99, 111, 109, 109, 101, 110, 116>>), FALSE),
    \* r'give\s+award'
    Re(Str(<<103, 105, 118, 101>>) \o <<RepInf(Space, FALSE, 1)>> \o Str(<<97, 119, 97, 114, 100>>), FALSE),
    \* r'share\s+report'
    Re(Str(<<115, 104, 97, 114, 101>>) \o <<RepInf(Space, FALSE, 1)>> \o Str(<<114, 101, 112, 111, 114, 116>>), FALSE),
    \* r'continue\s+this\s+thread'
    Re(Str(<<99, 111, 110, 116, 105, 110, 117, 101>>) \o <<RepInf(Space, FALSE, 1)>> \o Str(<<116, 104, 105, 115>>) \o <<RepInf(Space, FALSE, 1)>> \o Str(<<116, 104, 114, 101, 97, 100>>), FALSE),
    \* r'view\s+discussions\s+in'
    Re(Str(<<118, 105, 101, 119>>) \o <<RepInf(Space, FALSE, 1)>> \o Str(<<100, 105, 115, 99, 117, 115, 115, 105, 111, 110, 115>>) \o <<RepInf(Space, FALSE, 1)>> \o Str(<<105, 110>>), FALSE),
    \* r'more\s+replies'
    Re(Str(<<109, 111, 114, 101>>) \o <<RepInf(Space, FALSE, 1)>> \o Str(<<114, 101, 112, 108, 105, 101, 115>>), FALSE),
    \* r'load\s+more\s+comments'
    Re(Str(<<108, 111, 97, 100>>) \o <<RepInf(Space, FALSE, 1)>> \o Str(<<109, 111, 114, 101>>) \o <<RepInf(Space, FALSE, 1)>> \o Str(<<99, 111, 109, 109, 101, 110, 116, 115>>), FALSE),
    \* r'sort\s+by:'
    Re(Str(<<115, 111, 114, 116>>) \o <<RepInf(Space, FALSE, 1)>> \o Str(<<98, 121, 58>>), FALSE),
    \* r'new\s+comments'
    Re(Str(<<110, 101, 119>>) \o <<RepInf(Space, FALSE, 1)>> \o Str(<<99, 111, 109, 109, 101, 110, 116, 115>>), FALSE),
    \* r'best\s+comments'
    Re(Str(<<98, 101, 115, 116>>) \o <<RepInf(Space, FALSE, 1)>> \o Str(<<99, 111, 109, 109, 101, 110, 116, 115>>), FALSE),
    \* r'top\s+comments'
    Re(Str(<<116, 111, 112>>) \o <<RepInf(Space, FALSE, 1)>> \o Str(<<99, 111, 109, 109, 101, 110, 116, 115>>), FALSE),
    \* r'controversial'
    Re(Str(<<99, 111, 110, 116, 114, 111, 118, 101, 114, 115, 105, 97, 108>>), FALSE),
    Re(Str(<<103, 105, 108, 100, 101, 100>>), FALSE),      \* r'gilded'
    Re(Str(<<97, 114, 99, 104, 105, 118, 101, 100>>), FALSE), \* r'archived'
    Re(Str(<<108, 111, 99, 107, 101, 100>>), FALSE),       \* r'locked'
    Re(Str(<<115, 116, 105, 99, 107, 105, 101, 100>>), FALSE), \* r'stickied'
    \* r'removed\s+by\s+moderator'
    Re(Str(<<114, 101, 109, 111, 118, 101, 100>>) \o <<RepInf(Space, FALSE, 1)>> \o Str(<<98, 121>>) \o <<RepInf(Space, FALSE, 1)>> \o Str(<<109, 111, 100, 101, 114, 97, 116, 111, 114>>), FALSE),
    \* r'deleted\s+by\s+user'
    Re(Str(<<100, 101, 108, 101, 116, 101, 100>>) \o <<RepInf(Space, FALSE, 1)>> \o Str(<<98, 121>>) \o <<RepInf(Space, FALSE, 1)>> \o Str(<<117, 115, 101, 114>>), FALSE),
    \* r'account\s+suspended'
    Re(Str(<<97, 99, 99, 111, 117, 110, 116>>) \o <<RepInf(Space, FALSE, 1)>> \o Str(<<115, 117, 115, 112, 101, 110, 100, 101, 100>>), FALSE),
    Re(Str(<<115, 104, 97, 100, 111, 119, 98, 97, 110, 110, 101, 100>>), FALSE), \* r'shadowbanned'
    \* r'[0-9]+\s+comment\s+deleted'
    Re(<<RepInf((48..57), FALSE, 1), RepInf(Space, FALSE, 1)>> \o Str(<<99, 111, 109, 109, 101, 110, 116>>) \o <<RepInf(Space, FALSE, 1)>> \o Str(<<100, 101, 108, 101, 116, 101, 100>>), FALSE),
    \* r'this\s+comment\s+has\s+been\s+deleted'
    Re(Str(<<116, 104, 105, 115>>) \o <<RepInf(Space, FALSE, 1)>> \o Str(<<99, 111, 109, 109, 101, 110, 116>>) \o <<RepInf(Space, FALSE, 1)>> \o Str(<<104, 97, 115>>) \o <<RepInf(Space, FALSE, 1)>> \o Str(<<98, 101, 101, 110>>) \o <<RepInf(Space, FALSE, 1)>> \o Str(<<100, 101, 108, 101, 116, 101, 100>>), FALSE),
    \* r'comment\s+removed\s+by\s+moderator'
    Re(Str(<<99, 111, 109, 109, 101, 110, 116>>) \o <<RepInf(Space, FALSE, 1)>> \o Str(<<114, 101, 109, 111, 118, 101, 100>>) \o <<RepInf(Space, FALSE, 1)>> \o Str(<<98, 121>>) \o <<RepInf(Space, FALSE, 1)>> \o Str(<<109, 111, 100, 101, 114, 97, 116, 111, 114>>), FALSE),
    \* r'user\s+deleted\s+their\s+account'
    Re(Str(<<117, 115, 101, 114>>) \o <<RepInf(Space, FALSE, 1)>> \o Str(<<100, 101, 108, 101, 116, 101, 100>>) \o <<RepInf(Space, FALSE, 1)>> \o Str(<<116, 104, 101, 105, 114>>) \o <<RepInf(Space, FALSE, 1)>> \o Str(<<97, 99, 99, 111, 117, 110, 116>>), FALSE)
  >>

bad_file_patterns == <<
    Re(Str(<<114, 101, 100, 100, 105, 116>>), FALSE),      \* r'reddit'
    Re(Str(<<99, 111, 109, 109, 101, 110, 116>>), FALSE),  \* r'comment'
    Re(Str(<<100, 105, 115, 99, 117, 115, 115, 105, 111, 110>>), FALSE), \* r'discussion'
    Re(Str(<<102, 111, 114, 117, 109>>), FALSE),           \* r'forum'
    Re(Str(<<116, 104, 114, 101, 97, 100>>), FALSE),       \* r'thread'
    Re(Str(<<112, 111, 115, 116>>), FALSE),                \* r'post'
    Re(Str(<<98, 108, 111, 103, 47, 95, 112, 111, 115, 116, 115>>), FALSE), \* r'blog/_posts'
    Re(Str(<<105, 115, 115, 117, 101, 115>>), FALSE),      \* r'issues'
    Re(Str(<<112, 117, 108, 108>>), FALSE),                \* r'pull'
    Re(Str(<<99, 104, 97, 110, 103, 101, 108, 111, 103>>), FALSE), \* r'changelog'
    Re(Str(<<114, 101, 108, 101, 97, 115, 101>>), FALSE),  \* r'release'
    Re(Str(<<110, 101, 119, 115>>), FALSE),                \* r'news'
    Re(Str(<<97, 110, 110, 111, 117, 110, 99, 101>>), FALSE) \* r'announce'
  >>

high_quality_sources == {
    "mdn_content", "owasp", "openai_cookbook", "langchain",
    "huggingface_course", "react_docs", "vue_docs", "nextjs_docs",
    "kubernetes_docs", "system_design_primer", "clean_code_javascript",
    "javascript_algorithms", "python_patterns" }

-----------------------------------------------------------------------------
(* DatasetCleaner.is_broken_encoding, contains_spam, is_bad_file           *)

IsBrokenChar(c) ==
  \/ c > 65535                               \* beyond the BMP
  \/ c = 65533                               \* U+FFFD REPLACEMENT CHARACTER
  \/ c < 32 /\ c \notin {10, 13, 9}          \* control characters

is_broken_encoding(text) ==
  IF text = <<>> THEN TRUE
  ELSE LET broken_chars == Cardinality({i \in 1..Len(text) : IsBrokenChar(text[i])})
           total_chars  == Len(text)
       IN  \* broken_chars / total_chars > max_broken_chars_ratio
           broken_chars * max_broken_chars_ratio.den
             > max_broken_chars_ratio.num * total_chars

\* any(re.search(pattern, text) for pattern in patterns), chars being
\* Chars(text)
AnyMatches(patterns, text, chars) ==
  \E k \in 1..Len(patterns) : SearchIn(patterns[k], text, chars)

AnyPattern(patterns, text) == AnyMatches(patterns, text, Chars(text))

\* contains_spam without text.lower()
contains_spam_as_written(text) == AnyPattern(spam_patterns, text)

contains_spam(text) == AnyPattern(spam_patterns, LowerText(text))

is_bad_file(file_path) == AnyPattern(bad_file_patterns, LowerText(file_path))

-----------------------------------------------------------------------------
(* DatasetCleaner.calculate_quality_score                                  *)

\* dict.get(key, default)
Get(doc, key, default) == IF key \in doc.keys THEN doc[key] ELSE default

\* the start positions of the words of str.split()
WordStarts(t) ==
  {i \in 1..Len(t) : t[i] \notin Space /\ (i = 1 \/ t[i - 1] \in Space)}

\* sum(len(word) for word in words)
WordChars(t) == Cardinality({i \in 1..Len(t) : t[i] \notin Space})

re_sentence_end == Re(<<RepInf({46, 33, 63}, FALSE, 1)>>, FALSE)

\* re.split(r'[.!?]+', t), each separator shown as the one mark -1
SplitMarked(t) == Sub(re_sentence_end, <<-1>>, t)

\* len([s.strip() for s in sentences if s.strip()])
Pieces(m, gap) ==
  Cardinality({i \in 1..Len(m) : m[i] \notin gap /\ (i = 1 \/ m[i - 1] \in gap)})

SentenceCount(t) ==
  Pieces(SelectSeq(SplitMarked(t), LAMBDA c : c \notin Space), {-1})

\* sum(len(s.split()) for s in sentences)
SentenceWords(t) == Pieces(SplitMarked(t), Space \cup {-1})

tech_indicators == <<
    \* r'function\s+\w+'
    Re(Str(<<102, 117, 110, 99, 116, 105, 111, 110>>) \o <<RepInf(Space, FALSE, 1), RepInf(Word, FALSE, 1)>>, TRUE),
    \* r'class\s+\w+'
    Re(Str(<<99, 108, 97, 115, 115>>) \o <<RepInf(Space, FALSE, 1), RepInf(Word, FALSE, 1)>>, TRUE),
    \* r'import\s+\w+'
    Re(Str(<<105, 109, 112, 111, 114, 116>>) \o <<RepInf(Space, FALSE, 1), RepInf(Word, FALSE, 1)>>, TRUE),
    \* r'const\s+\w+'
    Re(Str(<<99, 111, 110, 115, 116>>) \o <<RepInf(Space, FALSE, 1), RepInf(Word, FALSE, 1)>>, TRUE),
    \* r'let\s+\w+'
    Re(Str(<<108, 101, 116>>) \o <<RepInf(Space, FALSE, 1), RepInf(Word, FALSE, 1)>>, TRUE),
    \* r'var\s+\w+'
    Re(Str(<<118, 97, 114>>) \o <<RepInf(Space, FALSE, 1), RepInf(Word, FALSE, 1)>>, TRUE),
    \* r'def\s+\w+'
    Re(Str(<<100, 101, 102>>) \o <<RepInf(Space, FALSE, 1), RepInf(Word, FALSE, 1)>>, TRUE),
    \* r'public\s+class'
    Re(Str(<<112, 117, 98, 108, 105, 99>>) \o <<RepInf(Space, FALSE, 1)>> \o Str(<<99, 108, 97, 115, 115>>), TRUE),
    \* r'private\s+\w+'
    Re(Str(<<112, 114, 105, 118, 97, 116, 101>>) \o <<RepInf(Space, FALSE, 1), RepInf(Word, FALSE, 1)>>, TRUE),
    Re(Str(<<97, 108, 103, 111, 114, 105, 116, 104, 109>>), TRUE), \* r'algorithm'
    \* r'implementation'
    Re(Str(<<105, 109, 112, 108, 101, 109, 101, 110, 116, 97, 116, 105, 111, 110>>), TRUE),
    \* r'documentation'
    Re(Str(<<100, 111, 99, 117, 109, 101, 110, 116, 97, 116, 105, 111, 110>>), TRUE),
    Re(Str(<<101, 120, 97, 109, 112, 108, 101>>), TRUE),   \* r'example'
    Re(Str(<<116, 117, 116, 111, 114, 105, 97, 108>>), TRUE), \* r'tutorial'
    Re(Str(<<103, 117, 105, 100, 101>>), TRUE),            \* r'guide'
    Re(Str(<<114, 101, 102, 101, 114, 101, 110, 99, 101>>), TRUE), \* r'reference'
    Re(Str(<<65, 80, 73>>), TRUE),                         \* r'API'
    Re(Str(<<109, 101, 116, 104, 111, 100>>), TRUE),       \* r'method'
    Re(Str(<<112, 97, 114, 97, 109, 101, 116, 101, 114>>), TRUE), \* r'parameter'
    Re(Str(<<114, 101, 116, 117, 114, 110>>), TRUE),       \* r'return'
    Re(Str(<<101, 120, 99, 101, 112, 116, 105, 111, 110>>), TRUE), \* r'exception'
    Re(Str(<<101, 114, 114, 111, 114>>), TRUE),            \* r'error'
    Re(Str(<<100, 101, 98, 117, 103, 103, 105, 110, 103>>), TRUE), \* r'debugging'
    Re(Str(<<116, 101, 115, 116, 105, 110, 103>>), TRUE),  \* r'testing'
    Re(Str(<<100, 101, 112, 108, 111, 121, 109, 101, 110, 116>>), TRUE), \* r'deployment'
    \* r'configuration'
    Re(Str(<<99, 111, 110, 102, 105, 103, 117, 114, 97, 116, 105, 111, 110>>), TRUE),
    Re(Str(<<112, 101, 114, 102, 111, 114, 109, 97, 110, 99, 101>>), TRUE), \* r'performance'
    Re(Str(<<115, 101, 99, 117, 114, 105, 116, 121>>), TRUE), \* r'security'
    \* r'authentication'
    Re(Str(<<97, 117, 116, 104, 101, 110, 116, 105, 99, 97, 116, 105, 111, 110>>), TRUE),
    \* r'authorization'
    Re(Str(<<97, 117, 116, 104, 111, 114, 105, 122, 97, 116, 105, 111, 110>>), TRUE),
    Re(Str(<<100, 97, 116, 97, 98, 97, 115, 101>>), TRUE), \* r'database'
    Re(Str(<<113, 117, 101, 114, 121>>), TRUE),            \* r'query'
    Re(Str(<<115, 101, 114, 118, 101, 114>>), TRUE),       \* r'server'
    Re(Str(<<99, 108, 105, 101, 110, 116>>), TRUE),        \* r'client'
    Re(Str(<<102, 114, 97, 109, 101, 119, 111, 114, 107>>), TRUE), \* r'framework'
    Re(Str(<<108, 105, 98, 114, 97, 114, 121>>), TRUE),    \* r'library'
    Re(Str(<<112, 97, 99, 107, 97, 103, 101>>), TRUE),     \* r'package'
    Re(Str(<<109, 111, 100, 117, 108, 101>>), TRUE),       \* r'module'
    Re(Str(<<99, 111, 109, 112, 111, 110, 101, 110, 116>>), TRUE), \* r'component'
    Re(Str(<<115, 101, 114, 118, 105, 99, 101>>), TRUE),   \* r'service'
    Re(Str(<<109, 105, 100, 100, 108, 101, 119, 97, 114, 101>>), TRUE), \* r'middleware'
    Re(Str(<<114, 111, 117, 116, 101, 114>>), TRUE),       \* r'router'
    Re(Str(<<99, 111, 110, 116, 114, 111, 108, 108, 101, 114>>), TRUE), \* r'controller'
    Re(Str(<<109, 111, 100, 101, 108>>), TRUE),            \* r'model'
    Re(Str(<<118, 105, 101, 119>>), TRUE),                 \* r'view'
    Re(Str(<<116, 101, 109, 112, 108, 97, 116, 101>>), TRUE), \* r'template'
    Re(Str(<<115, 99, 104, 101, 109, 97>>), TRUE),         \* r'schema'
    Re(Str(<<118, 97, 108, 105, 100, 97, 116, 105, 111, 110>>), TRUE), \* r'validation'
    \* r'serialization'
    Re(Str(<<115, 101, 114, 105, 97, 108, 105, 122, 97, 116, 105, 111, 110>>), TRUE),
    Re(Str(<<112, 97, 114, 115, 105, 110, 103>>), TRUE),   \* r'parsing'
    \* r'optimization'
    Re(Str(<<111, 112, 116, 105, 109, 105, 122, 97, 116, 105, 111, 110>>), TRUE),
    Re(Str(<<99, 97, 99, 104, 105, 110, 103>>), TRUE),     \* r'caching'
    Re(Str(<<108, 111, 103, 103, 105, 110, 103>>), TRUE),  \* r'logging'
    Re(Str(<<109, 111, 110, 105, 116, 111, 114, 105, 110, 103>>), TRUE), \* r'monitoring'
    Re(Str(<<109, 101, 116, 114, 105, 99, 115>>), TRUE),   \* r'metrics'
    Re(Str(<<112, 105, 112, 101, 108, 105, 110, 101>>), TRUE), \* r'pipeline'
    Re(Str(<<119, 111, 114, 107, 102, 108, 111, 119>>), TRUE), \* r'workflow'
    Re(Str(<<100, 101, 112, 108, 111, 121, 109, 101, 110, 116>>), TRUE), \* r'deployment'
    \* r'containerization'
    Re(Str(<<99, 111, 110, 116, 97, 105, 110, 101, 114, 105, 122, 97, 116, 105, 111, 110>>), TRUE),
    \* r'orchestration'
    Re(Str(<<111, 114, 99, 104, 101, 115, 116, 114, 97, 116, 105, 111, 110>>), TRUE),
    \* r'microservices'
    Re(Str(<<109, 105, 99, 114, 111, 115, 101, 114, 118, 105, 99, 101, 115>>), TRUE),
    Re(Str(<<97, 114, 99, 104, 105, 116, 101, 99, 116, 117, 114, 101>>), TRUE), \* r'architecture'
    \* r'design pattern'
    Re(Str(<<100, 101, 115, 105, 103, 110, 32, 112, 97, 116, 116, 101, 114, 110>>), TRUE),
    \* r'best practice'
    Re(Str(<<98, 101, 115, 116, 32, 112, 114, 97, 99, 116, 105, 99, 101>>), TRUE),
    Re(Str(<<99, 111, 100, 101, 32, 114, 101, 118, 105, 101, 119>>), TRUE), \* r'code review'
    \* r'version control'
    Re(Str(<<118, 101, 114, 115, 105, 111, 110, 32, 99, 111, 110, 116, 114, 111, 108>>), TRUE),
    Re(Str(<<103, 105, 116>>), TRUE),                      \* r'git'
    Re(Str(<<114, 101, 112, 111, 115, 105, 116, 111, 114, 121>>), TRUE), \* r'repository'
    Re(Str(<<98, 114, 97, 110, 99, 104>>), TRUE),          \* r'branch'
    Re(Str(<<109, 101, 114, 103, 101>>), TRUE),            \* r'merge'
    Re(Str(<<99, 111, 109, 109, 105, 116>>), TRUE),        \* r'commit'
    Re(Str(<<112, 117, 108, 108, 32, 114, 101, 113, 117, 101, 115, 116>>), TRUE) \* r'pull request'
  >>


re_header     == Re(<<RepInf({35}, FALSE, 1), RepInf(Space, FALSE, 1),
                      RepInf(Word, FALSE, 1)>>, FALSE)
re_code_block == Re(Str(<<96, 96, 96>>) \o <<RepInf(Word, FALSE, 0)>> \o Str(<<10>>)
                      \o <<LazyInf({}, TRUE, 0)>> \o Str(<<10, 96, 96, 96>>), FALSE)
re_list       == Re(<<Bol, RepInf(Space, FALSE, 0), Rep({45, 42, 43}, FALSE, 1, 1),
                      RepInf(Space, FALSE, 1)>>, FALSE)

Min(a, b) == IF a < b THEN a ELSE b

\* len(content.split())
WordCount(t) == Cardinality(WordStarts(t))

\* The scores are in hundredths (0.3 is 30, 0.05 is 5): every sum the code
\* can form is a multiple of 0.01, and its float value compares with 0.5
\* and with 1 as the exact sum does.
SourceBonus(source) == IF source \in high_quality_sources THEN 30 ELSE 0

LengthBonus(word_count) ==
  IF 200 <= word_count /\ word_count <= 5000 THEN 20
  ELSE IF 100 <= word_count /\ word_count <= 10000 THEN 10
  ELSE 0

\* min(tech_count * 0.02, 0.3)
TechBonus(clean_content, chars) ==
  Min(2 * Cardinality({k \in 1..Len(tech_indicators) :
                         SearchIn(tech_indicators[k], clean_content, chars)}), 30)

StructureBonus(clean_content, chars) ==
    (IF SearchIn(re_header, clean_content, chars) THEN 10 ELSE 0)
  + (IF SearchIn(re_code_block, clean_content, chars) THEN 20 ELSE 0)
  + (IF SearchIn(re_list, clean_content, chars) THEN 5 ELSE 0)

\* the sum of lines 250-350
RawPoints(source, word_count, clean_content) ==
  SourceBonus(source) + LengthBonus(word_count)
    + TechBonus(clean_content, Chars(clean_content))
    + StructureBonus(clean_content, Chars(clean_content))

\* no bonus for being in high-quality sources
Unraised(source, score) == score

\* "Bonus for being in high-quality sources"
Floor(source, score) ==
  IF source \in high_quality_sources /\ score < 50 THEN 50 ELSE score

QualityPoints(source, word_count, clean_content) ==
  Floor(source, RawPoints(source, word_count, clean_content))

\* sum / n < bound and sum / n > bound, the average being 0 when n is 0
AverageBelow(sum, n, bound) == IF n > 0 THEN sum < bound * n ELSE 0 < bound
AverageAbove(sum, n, bound) == IF n > 0 THEN sum > bound * n ELSE 0 > bound

\* the thresholds __init__ sets
thresholds ==
  [min_word_count      |-> min_word_count,
   max_word_count      |-> max_word_count,
   min_avg_word_length |-> min_avg_word_length,
   max_avg_word_length |-> max_avg_word_length,
   min_sentence_length |-> min_sentence_length]

\* the first rejection of lines 223-248 that holds, or "none", for a
\* cleaner whose threshold attributes are those of self
RejectionUnder(self, word_count, word_chars, sentences, sentence_words) ==
  IF word_count < self.min_word_count THEN "too_short"
  ELSE IF word_count > self.max_word_count THEN "too_long"
  ELSE IF AverageBelow(word_chars, word_count, self.min_avg_word_length)
    THEN "words_too_short"
  ELSE IF AverageAbove(word_chars, word_count, self.max_avg_word_length)
    THEN "words_too_long"
  ELSE IF sentences > 0
          /\ AverageBelow(sentence_words, sentences, self.min_sentence_length)
    THEN "sentences_too_short"
  ELSE "none"

\* ... with the thresholds __init__ sets
RejectionFor(word_count, word_chars, sentences, sentence_words) ==
  RejectionUnder(thresholds, word_count, word_chars, sentences, sentence_words)

MetricsRejection(clean_content) ==
  RejectionFor(WordCount(clean_content), WordChars(clean_content),
               SentenceCount(clean_content), SentenceWords(clean_content))

\* ScoreMetrics with the bonus for high-quality sources given to a rejected
\* document as well
ScoreMetrics_floored(doc, clean_content, rejection) ==
  IF rejection # "none" THEN <<Floor(Get(doc, "source", ""), 0), rejection>>
  ELSE <<QualityPoints(Get(doc, "source", ""), WordCount(clean_content),
                       clean_content),
         "quality_passed">>

\* lines 250-355, once the metrics are known
ScoreMetrics(doc, clean_content, rejection) ==
  IF rejection # "none" THEN <<0, rejection>>
  ELSE <<QualityPoints(Get(doc, "source", ""), WordCount(clean_content),
                       clean_content),
         "quality_passed">>

\* ScoreCleaned with the metrics looked at before spam and file path
ScoreCleaned_metrics_first(doc, clean_content) ==
  IF clean_content = <<>> THEN <<0, "empty_after_cleaning">>
  ELSE IF is_broken_encoding(clean_content) THEN <<0, "broken_encoding">>
  ELSE IF MetricsRejection(clean_content) # "none"
    THEN <<0, MetricsRejection(clean_content)>>
  ELSE IF contains_spam(clean_content) THEN <<0, "spam_content">>
  ELSE IF is_bad_file(Get(doc, "file_path", <<>>)) THEN <<0, "bad_file_path">>
  ELSE ScoreMetrics(doc, clean_content, "none")

\* lines 206-355, clean_content being clean_text(content)
ScoreCleaned(doc, clean_content) ==
  IF clean_content = <<>> THEN <<0, "empty_after_cleaning">>
  ELSE IF is_broken_encoding(clean_content) THEN <<0, "broken_encoding">>
  ELSE IF contains_spam(clean_content) THEN <<0, "spam_content">>
  ELSE IF is_bad_file(Get(doc, "file_path", <<>>)) THEN <<0, "bad_file_path">>
  ELSE ScoreMetrics(doc, clean_content, MetricsRejection(clean_content))

\* calculate_quality_score of a cleaner whose threshold attributes are those
\* of self, clean_content being clean_text(doc.get('content', ''))
ScoreUnder(self, doc, clean_content) ==
  IF Get(doc, "content", <<>>) = <<>> THEN <<0, "empty_content">>
  ELSE IF clean_content = <<>> THEN <<0, "empty_after_cleaning">>
  ELSE IF is_broken_encoding(clean_content) THEN <<0, "broken_encoding">>
  ELSE IF contains_spam(clean_content) THEN <<0, "spam_content">>
  ELSE IF is_bad_file(Get(doc, "file_path", <<>>)) THEN <<0, "bad_file_path">>
  ELSE ScoreMetrics(doc, clean_content,
                    RejectionUnder(self, WordCount(clean_content),
                                   WordChars(clean_content),
                                   SentenceCount(clean_content),
                                   SentenceWords(clean_content)))

\* ScoreContent without the test "if not content"
ScoreContent_unchecked(doc, content) == ScoreCleaned(doc, clean_text(content))

\* lines 201-355, content being doc.get('content', '')
ScoreContent(doc, content) ==
  IF content = <<>> THEN <<0, "empty_content">>
  ELSE ScoreCleaned(doc, clean_text(content))

\* returns <<score, reason>>, the score in hundredths
calculate_quality_score(doc) == ScoreContent(doc, Get(doc, "content", <<>>))

-----------------------------------------------------------------------------
(* The documents the input files may hold.  A document is the dict that    *)
(* json.loads returns: keys is the set of its keys, content and file_path  *)
(* are texts, source is a string.                                          *)

\* n copies of the text s, one after the other
Times(n, s) == [i \in 1..(n * Len(s)) |-> s[((i - 1) % Len(s)) + 1]] \o <<>>

Document(source, file_path, content) ==
  [keys |-> {"source", "file_path", "content"}, source |-> source,
   file_path |-> file_path, content |-> content]

good_path == <<100, 111, 99, 115, 47, 97, 46, 109, 100>>          \* "docs/a.md"
bad_path  == <<102, 111, 114, 117, 109, 47, 97, 46, 109, 100>>    \* "forum/a.md"

fifty_words == Times(50, <<97, 98, 99, 32>>)                      \* "abc abc ... "
hidden_upvote ==                                       \* "<!-- upvote -->"
  <<60, 33, 45, 45, 32, 117, 112, 118, 111, 116, 101, 32, 45, 45, 62>>
\* "- item\n# Guide\n```py\ncode\n```\n"
structure ==
  <<45, 32, 105, 116, 101, 109, 10, 35, 32, 71, 117, 105, 100, 101, 10,
    96, 96, 96, 112, 121, 10, 99, 111, 100, 101, 10, 96, 96, 96, 10>>
\* "api git view model query error guide merge branch commit server client
\*  router schema module method " : sixteen words, each a technical indicator
vocabulary ==
  <<97, 112, 105, 32, 103, 105, 116, 32, 118, 105, 101, 119, 32,
    109, 111, 100, 101, 108, 32, 113, 117, 101, 114, 121, 32,
    101, 114, 114, 111, 114, 32, 103, 117, 105, 100, 101, 32,
    109, 101, 114, 103, 101, 32, 98, 114, 97, 110, 99, 104, 32,
    99, 111, 109, 109, 105, 116, 32, 115, 101, 114, 118, 101, 114, 32,
    99, 108, 105, 101, 110, 116, 32, 114, 111, 117, 116, 101, 114, 32,
    115, 99, 104, 101, 109, 97, 32, 109, 111, 100, 117, 108, 101, 32,
    109, 101, 116, 104, 111, 100, 32>>
rich_content == structure \o Times(13, vocabulary)

Docs == <<
  \* 1: no content key
  [keys |-> {"source", "file_path"}, source |-> "blog", file_path |-> good_path],
  \* 2: content ""
  Document("owasp", good_path, <<>>),
  \* 3: content "<b></b>", nothing left after cleaning
  Document("owasp", good_path, <<60, 98, 62, 60, 47, 98, 62>>),
  \* 4: content "\x01\x01ab", half of it control characters
  Document("owasp", good_path, <<1, 1, 97, 98>>),
  \* 5: content "Please UPVOTE", spam and too short
  Document("owasp", good_path,
           <<80, 108, 101, 97, 115, 101, 32, 85, 80, 86, 79, 84, 69>>),
  \* 6: fifty words and 'upvote' inside an HTML comment
  Document("owasp", good_path, fifty_words \o hidden_upvote),
  \* 7: fifty words and 'Upvote' in the text
  Document("owasp", good_path, fifty_words \o <<85, 112, 118, 111, 116, 101>>),
  \* 8: fifty words under a bad file path
  Document("owasp", bad_path, fifty_words),
  \* 9: content "a b c"
  Document("owasp", good_path, <<97, 32, 98, 32, 99>>),
  \* 10: fifty words of two letters
  Document("owasp", good_path, Times(50, <<97, 98, 32>>)),
  \* 11: fifty words of twenty-one letters
  Document("owasp", good_path, Times(50, Times(21, <<97>>) \o <<32>>)),
  \* 12: ten sentences of five words
  Document("owasp", good_path,
           Times(10, Times(4, <<97, 98, 99, 32>>) \o <<97, 98, 99, 46, 32>>)),
  \* 13: fifty words, no source and no file path
  [keys |-> {"content"}, content |-> fifty_words],
  \* 14: fifty words from a high-quality source, with metadata
  [keys |-> {"source", "file_path", "content", "metadata"}, source |-> "owasp",
   file_path |-> good_path, content |-> fifty_words,
   metadata |-> <<<<"file_size", 200>>>>],
  \* 15: a list, a header, a fenced code block and 208 technical words from a
  \*     high-quality source
  Document("owasp", good_path, rich_content),
  \* 16: the same from another source
  Document("blog", good_path, rich_content)
>>

DocIds == 1..Len(Docs)

\* calculate_quality_score and clean_text are functions of the document
\* alone; each document's values are computed once, as one tuple
score_of   == [d \in DocIds |-> calculate_quality_score(Docs[d])] \o <<>>
cleaned_of == [d \in DocIds |-> clean_text(Get(Docs[d], "content", <<>>))] \o <<>>

-----------------------------------------------------------------------------
(* DatasetCleaner.process_document                                         *)

\* collections.Counter, a dict: the sequence of its <<key, count>> items in
\* the order the keys were first stored
Keys(counter) == {counter[i][1] : i \in DOMAIN counter}

\* counter[key]: a missing key counts 0
Count(counter, key) ==
  IF key \in Keys(counter)
  THEN counter[CHOOSE i \in DOMAIN counter : counter[i][1] = key][2]
  ELSE 0

\* counter[key] += 1
Increment(counter, key) ==
  IF key \in Keys(counter)
  THEN [i \in DOMAIN counter |->
          IF counter[i][1] = key THEN <<key, counter[i][2] + 1>> ELSE counter[i]]
  ELSE Append(counter, <<key, 1>>)

\* cleaned_doc with the content as it was read
cleaned_doc_as_read(d) ==
  [source        |-> Get(Docs[d], "source", ""),
   file_path     |-> Get(Docs[d], "file_path", <<>>),
   content       |-> Get(Docs[d], "content", <<>>),
   word_count    |-> WordCount(Get(Docs[d], "content", <<>>)),
   quality_score |-> score_of[d][1],
   timestamp     |-> Get(Docs[d], "timestamp", ""),
   metadata      |-> Get(Docs[d], "metadata", <<>>)]

\* what process_document builds for an accepted document
cleaned_doc(d) ==
  [source        |-> Get(Docs[d], "source", ""),
   file_path     |-> Get(Docs[d], "file_path", <<>>),
   content       |-> cleaned_of[d],
   word_count    |-> WordCount(cleaned_of[d]),
   quality_score |-> score_of[d][1],
   timestamp     |-> Get(Docs[d], "timestamp", ""),
   metadata      |-> Get(Docs[d], "metadata", <<>>)]

\* process_document without the quality threshold
process_document_without_threshold(st, d) ==
  IF cleaned_of[d] = <<>>
  THEN [stats  |-> [st EXCEPT !.total_input = @ + 1, !.filtered_out = @ + 1,
                              !.reasons = Increment(@, "empty_after_cleaning")],
        scored |-> score_of[d],
        result |-> None]
  ELSE [stats  |-> [st EXCEPT !.total_input = @ + 1, !.quality_kept = @ + 1],
        scored |-> score_of[d],
        result |-> cleaned_doc(d)]

\* process_document counting a rejected document under its reason alone
process_document_uncounted(st, d) ==
  IF score_of[d][1] < 50 \/ cleaned_of[d] = <<>>
  THEN [stats  |-> [st EXCEPT !.total_input = @ + 1,
                              !.reasons = Increment(@, score_of[d][2])],
        scored |-> score_of[d],
        result |-> None]
  ELSE [stats  |-> [st EXCEPT !.total_input = @ + 1, !.quality_kept = @ + 1],
        scored |-> score_of[d],
        result |-> cleaned_doc(d)]

\* process_document keeping no document once one has been kept
process_document_keeping_one(st, d) ==
  IF score_of[d][1] < 50 \/ st.quality_kept >= 1
  THEN [stats  |-> [st EXCEPT !.total_input = @ + 1, !.filtered_out = @ + 1,
                              !.reasons = Increment(@, score_of[d][2])],
        scored |-> score_of[d],
        result |-> None]
  ELSE [stats  |-> [st EXCEPT !.total_input = @ + 1, !.quality_kept = @ + 1],
        scored |-> score_of[d],
        result |-> cleaned_doc(d)]

\* process_document counting a document below the threshold as too_short
process_document_misfiled(st, d) ==
  IF score_of[d][1] < 50 \/ cleaned_of[d] = <<>>
  THEN [stats  |-> [st EXCEPT !.total_input = @ + 1, !.filtered_out = @ + 1,
                              !.reasons =
                                Increment(@, IF score_of[d][2] = "quality_passed"
                                             THEN "too_short"
                                             ELSE score_of[d][2])],
        scored |-> score_of[d],
        result |-> None]
  ELSE [stats  |-> [st EXCEPT !.total_input = @ + 1, !.quality_kept = @ + 1],
        scored |-> score_of[d],
        result |-> cleaned_doc(d)]

\* lines 359-390, called being what calculate_quality_score returned: the
\* stats after process_document(Docs[d]) and the value it returns
Processed(st, d, called) ==
  LET seen   == [st EXCEPT !.total_input = @ + 1]
      score  == called[1]
      reason == called[2]
      reject(why) == [stats  |-> [seen EXCEPT !.filtered_out = @ + 1,
                                              !.reasons = Increment(@, why)],
                      scored |-> called,
                      result |-> None]
  IN  IF score < 50 THEN reject(reason)
      ELSE LET clean_content == cleaned_of[d] IN
        IF clean_content = <<>> THEN reject("empty_after_cleaning")
        ELSE [stats  |-> [seen EXCEPT !.quality_kept = @ + 1],
              scored |-> called,
              result |-> [cleaned_doc(d) EXCEPT !.quality_score = score]]

\* process_document of a cleaner with the thresholds __init__ sets
process_document(st, d) == Processed(st, d, score_of[d])

-----------------------------------------------------------------------------
(* DatasetCleaner.run: clean_dataset, create_quality_report,                *)
(* create_sample_file                                                      *)

splits == <<"train.jsonl", "validation.jsonl", "test.jsonl">>

\* the for loop of clean_dataset takes the next split, whose input file
\* does not exist: a warning, and on to the next
SkipMissingFile ==
  /\ pc = "next_split" /\ split < Len(splits)
  /\ split' = split + 1
  /\ UNCHANGED <<stats, pc, processed, kept, output, invalid_json, lines_read,
                 current, scored, result, report, sample, cleaning, others>>

\* OpenFiles with the counters starting afresh for each file
OpenFiles_resetting ==
  /\ pc = "next_split" /\ split < Len(splits)
  /\ split' = split + 1
  /\ processed' = 0 /\ kept' = 0
  /\ output' = [output EXCEPT ![split + 1] = 0]
  /\ pc' = "lines"
  /\ stats' = [total_input |-> 0, filtered_out |-> 0, quality_kept |-> 0,
               reasons |-> <<>>]
  /\ UNCHANGED <<invalid_json, lines_read, current, scored, result, report, sample,
                 cleaning, others>>

\* ... whose input file exists: both files are opened
OpenFiles ==
  /\ pc = "next_split" /\ split < Len(splits)
  /\ split' = split + 1
  /\ processed' = 0 /\ kept' = 0
  /\ output' = [output EXCEPT ![split + 1] = 0]
  /\ pc' = "lines"
  /\ UNCHANGED <<stats, invalid_json, lines_read, current, scored, result, report, sample,
                 cleaning, others>>

\* a line with nothing but whitespace
ReadBlankLine ==
  /\ pc = "lines" /\ lines_read < MaxLines
  /\ lines_read' = lines_read + 1
  /\ UNCHANGED <<stats, pc, split, processed, kept, output, invalid_json, current, scored,
                 result, report, sample, cleaning, others>>

\* a line json.loads raises JSONDecodeError for
ReadInvalidLine ==
  /\ pc = "lines" /\ lines_read < MaxLines
  /\ lines_read' = lines_read + 1
  /\ invalid_json' = invalid_json + 1
  /\ UNCHANGED <<stats, pc, split, processed, kept, output, current, scored, result,
                 report, sample, cleaning, others>>

\* a line that holds the document Docs[d]
ReadDocument(d) ==
  /\ pc = "lines" /\ lines_read < MaxLines
  /\ lines_read' = lines_read + 1
  /\ LET call == process_document(stats, d) IN
       /\ stats' = call.stats
       /\ current' = d
       /\ scored' = call.scored
       /\ result' = call.result
       /\ IF call.result # None
          THEN /\ output' = [output EXCEPT ![split] = @ + 1]
               /\ kept' = kept + 1
          ELSE UNCHANGED <<output, kept>>
  /\ processed' = processed + 1
  /\ UNCHANGED <<pc, split, invalid_json, report, sample, cleaning, others>>

\* the input file has no more lines
EndOfFile ==
  /\ pc = "lines"
  /\ pc' = "next_split"
  /\ UNCHANGED <<stats, split, processed, kept, output, invalid_json,
                 lines_read, current, scored, result, report, sample, cleaning, others>>

\* quality_kept / total_input without the test of total_input: den = 0
\* stands for ZeroDivisionError
retention_rate_unguarded(st) ==
  [num |-> st.quality_kept, den |-> st.total_input]

\* the quotient as the fraction num / den
retention_rate(st) ==
  IF st.total_input > 0
  THEN [num |-> st.quality_kept, den |-> st.total_input]
  ELSE [num |-> 0, den |-> 1]

\* the report dict; dict(Counter) keeps the order of the items
Report(st) ==
  [cleaning_summary |->
     [total_input_documents |-> st.total_input,
      documents_kept        |-> st.quality_kept,
      documents_filtered    |-> st.filtered_out,
      retention_rate        |-> retention_rate(st)],
   filtering_reasons |-> st.reasons]

\* create_quality_report called wherever clean_dataset stands between two
\* files
create_quality_report_early ==
  /\ pc = "next_split"
  /\ report' = Report(stats)
  /\ UNCHANGED <<stats, pc, split, processed, kept, output, invalid_json,
                 lines_read, current, scored, result, sample, cleaning, others>>

\* clean_dataset returns after the last split
create_quality_report ==
  /\ pc = "next_split" /\ split = Len(splits)
  /\ report' = Report(stats)
  /\ pc' = "sample"
  /\ UNCHANGED <<stats, split, processed, kept, output, invalid_json,
                 lines_read, current, scored, result, sample, cleaning, others>>

create_sample_file ==
  /\ pc = "sample"
  /\ sample' = IF output[1] = -1 THEN -1 ELSE Min(output[1], 10)
  /\ pc' = "done"
  /\ UNCHANGED <<stats, split, processed, kept, output, invalid_json,
                 lines_read, current, scored, result, report, cleaning, others>>

NoCollecting ==
  /\ corpus = <<>> /\ chunks = None
  /\ fast = None /\ clones = None

\* DatasetCleaner() before run() is called
NoPipeline ==
  /\ stats = [total_input |-> 0, filtered_out |-> 0, quality_kept |-> 0,
              reasons |-> <<>>]
  /\ pc = "next_split" /\ split = 0
  /\ processed = 0 /\ kept = 0
  /\ output = [s \in 1..Len(splits) |-> -1]
  /\ invalid_json = 0 /\ lines_read = 0
  /\ current = 0 /\ scored = NoScore /\ result = None
  /\ report = None /\ sample = -1

InitPipeline == NoPipeline /\ NoCollecting

\* the variables of the other specifications, at rest
NoCleaning  == raw = <<>> /\ once = NotRun /\ twice = NotRun
NoSplitting ==
  /\ all_content = <<>> /\ all_docs = NotRun /\ split_docs = NotRun
  /\ previous = NotRun /\ clean_docs = NotRun
NoSizing    == total = 0 /\ sizes = NotRun
NoWorkers   == workers = <<>> /\ wanted = None /\ cleaner = None

Init == InitPipeline /\ NoCleaning /\ NoSplitting /\ NoSizing /\ NoWorkers

Next ==
  \/ SkipMissingFile
  \/ OpenFiles
  \/ ReadBlankLine
  \/ ReadInvalidLine
  \/ \E d \in DocIds : ReadDocument(d)
  \/ EndOfFile
  \/ create_quality_report
  \/ create_sample_file

Spec == Init /\ [][Next]_vars

-----------------------------------------------------------------------------
(* clean_text on its own, applied to every string of up to MaxParts parts  *)

RECURSIVE Join(_)
Join(parts) == IF parts = <<>> THEN <<>> ELSE Head(parts) \o Join(Tail(parts))

Strings == {Join(parts) : parts \in UNION {[1..n -> Parts] : n \in 0..MaxParts}}

Clean ==
  /\ once = NotRun
  /\ once' = clean_text(raw)
  /\ UNCHANGED <<raw, twice, pipeline, others>>

CleanAgain ==
  /\ once # NotRun /\ twice = NotRun
  /\ twice' = clean_text(once)
  /\ UNCHANGED <<raw, once, pipeline, others>>

InitClean ==
  /\ InitPipeline /\ raw \in Strings /\ once = NotRun /\ twice = NotRun
  /\ NoSplitting /\ NoSizing /\ NoWorkers

NextClean == Clean \/ CleanAgain

SpecClean == InitClean /\ [][NextClean]_vars

-----------------------------------------------------------------------------
(* ExpandedDataCollector.create_training_splits, and DatasetCleaner.run on *)
(* the three files it writes (the output directory of the one is the input *)
(* directory of the other)                                                 *)

MaxDocs  == 4     \* documents of a list that is shuffled in every way
LongList == 10    \* documents of the lists shuffled in some ways only
MaxRerun == 2     \* documents of the lists that are split a second time

\* the documents of the lists: 5 is spam, 9 too short, 14 accepted
SplitPool == {5, 9, 14}

\* all_docs.extend(docs) for the lists of all_content in turn
RECURSIVE Flatten(_)
Flatten(lists) ==
  IF lists = <<>> THEN <<>> ELSE Head(lists) \o Flatten(Tail(lists))

\* round(0.8 * total) and round(0.1 * total), for tenths = 8 and 1
RoundedTenths(tenths, n) == (tenths * n + 5) \div 10

\* int(0.8 * total) and int(0.1 * total), for tenths = 8 and 1. The double
\* nearest to 0.8 (to 0.1) lies above it by less than one part in 10^16 and
\* the product is rounded to the nearest double, so for a total below 2^49
\* the product is no less than the exact tenths * total / 10 and below the
\* next integer; int() drops the fraction.
Tenths(tenths, n) == (tenths * n) \div 10

train_size(n) == Tenths(8, n)
val_size(n)   == Tenths(1, n)

\* s[lo:hi] for 0 <= lo: the bounds are cut to len(s)
Slice(s, lo, hi) == SubSeq(s, Min(lo, Len(s)) + 1, Min(hi, Len(s)))

\* all_docs[train_size:]
test_docs_after_train(docs) == Slice(docs, train_size(Len(docs)), Len(docs))

train_docs(docs) == Slice(docs, 0, train_size(Len(docs)))
val_docs(docs)   ==
  Slice(docs, train_size(Len(docs)), train_size(Len(docs)) + val_size(Len(docs)))
test_docs(docs)  ==
  Slice(docs, train_size(Len(docs)) + val_size(Len(docs)), Len(docs))

\* the orders random.shuffle can leave n documents in; a document is named
\* by its place in the flattened list. The generator is seeded by the
\* system, so every permutation is possible; of a list longer than MaxDocs
\* the model follows the rotations of the list and of its reverse.
Shuffles(n) ==
  IF n <= MaxDocs
  THEN {p \in [1..n -> 1..n] : \A i, j \in 1..n : p[i] = p[j] => i = j}
  ELSE {[i \in 1..n |-> ((i + k - 1) % n) + 1] : k \in 0..(n - 1)}
       \cup {[i \in 1..n |-> n - ((i + k - 1) % n)] : k \in 0..(n - 1)}

\* create_training_splits: flatten, shuffle, slice, write the three files
create_training_splits ==
  /\ all_docs = NotRun
  /\ \E shuffled \in Shuffles(Len(Flatten(all_content))) :
       /\ all_docs' = shuffled
       /\ split_docs' =
            <<train_docs(shuffled), val_docs(shuffled), test_docs(shuffled)>>
  /\ UNCHANGED <<all_content, previous, clean_docs, pipeline, cleaning, collecting, sizing,
                 workers, configuring>>

\* the collection is run once more on the same documents
RunAgain ==
  /\ split_docs # NotRun /\ previous = NotRun /\ clean_docs = NotRun
  /\ Len(Flatten(all_content)) <= MaxRerun
  /\ previous' = split_docs
  /\ all_docs' = NotRun /\ split_docs' = NotRun
  /\ UNCHANGED <<all_content, clean_docs, pipeline, cleaning, collecting, sizing, workers,
                 configuring>>

\* for line in f_in, for a file whose lines hold the documents at the places
\* lines: the stats after the calls of process_document, the places of the
\* documents written to f_out, and the last call
AfterCall(run, call, place, d) ==
  [stats |-> call.stats,
   kept  |-> IF call.result # None THEN Append(run.kept, place) ELSE run.kept,
   last  |-> d,
   call  |-> call]

RECURSIVE CleanFile(_, _, _)
CleanFile(run, content, lines) ==
  IF lines = <<>> THEN run
  ELSE CleanFile(AfterCall(run, process_document(run.stats, content[Head(lines)]),
                           Head(lines), content[Head(lines)]),
                 content, Tail(lines))

\* the run of clean_dataset over the three files, one after another: the
\* state at the end of each file
RECURSIVE CleanFiles(_, _, _)
AndTheRest(done, content, files) == <<done>> \o CleanFiles(done, content, files)
CleanFiles(run, content, files) ==
  IF files = <<>> THEN <<>>
  ELSE AndTheRest(CleanFile([run EXCEPT !.kept = <<>>], content, Head(files)),
                  content, Tail(files))

\* the variables after clean_dataset, from the state at the end of each file
Cleaned(runs) ==
  /\ stats' = runs[Len(splits)].stats
  /\ clean_docs' = [f \in 1..Len(splits) |-> runs[f].kept]
  /\ output' = [f \in 1..Len(splits) |-> Len(runs[f].kept)]
  /\ processed' = Len(split_docs[Len(splits)])
  /\ kept' = Len(runs[Len(splits)].kept)
  /\ lines_read' = Len(all_docs)
  /\ current' = runs[Len(splits)].last
  /\ scored' = runs[Len(splits)].call.scored
  /\ result' = runs[Len(splits)].call.result

\* DatasetCleaner.clean_dataset on the files create_training_splits wrote
clean_dataset ==
  /\ split_docs # NotRun /\ clean_docs = NotRun
  /\ pc = "next_split" /\ split = 0
  /\ Cleaned(CleanFiles([stats |-> stats, kept |-> <<>>, last |-> current,
                         call |-> [scored |-> scored, result |-> result]],
                        Flatten(all_content), split_docs))
  /\ split' = Len(splits)
  /\ UNCHANGED <<pc, invalid_json, report, sample, cleaning, collecting, sizing, workers,
                 configuring, all_content, all_docs, split_docs, previous>>

\* the lists of up to MaxDocs documents, as one source or as two, and the
\* lists of LongList documents with one kind of document or two
Lists == UNION {[1..n -> SplitPool] : n \in 0..MaxDocs}
Contents ==
  {<<docs>> : docs \in Lists}
  \cup {<<SubSeq(docs, 1, Len(docs) - 1), <<docs[Len(docs)]>>>> :
          docs \in Lists \ {<<>>}}
  \cup {<<[i \in 1..LongList |-> IF i % 3 = 0 THEN a ELSE b]>> :
          a \in SplitPool, b \in SplitPool}

InitSplit ==
  /\ InitPipeline /\ NoCleaning /\ NoSizing /\ NoWorkers
  /\ all_content \in Contents
  /\ all_docs = NotRun /\ split_docs = NotRun /\ previous = NotRun
  /\ clean_docs = NotRun

NextSplit ==
  \/ create_training_splits
  \/ RunAgain
  \/ clean_dataset
  \/ create_quality_report
  \/ create_sample_file

SpecSplit == InitSplit /\ [][NextSplit]_vars

-----------------------------------------------------------------------------
(* The sizes of the splits, for every number of documents up to MaxTotal   *)

MaxTotal == 1000

\* len(train_docs), len(val_docs), len(test_docs)
SizesOf(docs) == <<Len(train_docs(docs)), Len(val_docs(docs)), Len(test_docs(docs))>>

\* create_training_splits on total documents: the sizes do not depend on
\* the order shuffle leaves them in
MeasureSplits ==
  /\ sizes = NotRun
  /\ sizes' = SizesOf([i \in 1..total |-> i])
  /\ UNCHANGED <<total, pipeline, cleaning, collecting, splitting, workers, configuring>>

InitSizes ==
  /\ InitPipeline /\ NoCleaning /\ NoSplitting /\ NoWorkers
  /\ total \in 0..MaxTotal /\ sizes = NotRun

NextSizes == MeasureSplits

SpecSizes == InitSizes /\ [][NextSizes]_vars

-----------------------------------------------------------------------------
(* process_document called by several threads on one DatasetCleaner: each  *)
(* `+= 1` on an entry of self.stats is a load of the entry, an addition    *)
(* and a store, and another thread may run between the load and the store  *)

Threads    == {1, 2}
\* the documents of the threads: 9 is too short, 14 accepted
ThreadPool == {9, 14}

\* the entries of self.stats that process_document adds one to for
\* Docs[d], in the order of its statements
Additions(d) ==
  IF score_of[d][1] < 50
  THEN <<"total_input", "filtered_out", score_of[d][2]>>
  ELSE IF cleaned_of[d] = <<>>
  THEN <<"total_input", "filtered_out", "empty_after_cleaning">>
  ELSE <<"total_input", "quality_kept">>

Scalars == {"total_input", "filtered_out", "quality_kept"}

\* self.stats[name], or self.stats['reasons'][name]
Loaded(st, name) ==
  IF name \in Scalars THEN st[name] ELSE Count(st.reasons, name)

\* counter[key] = value
SetCount(counter, key, value) ==
  IF key \in Keys(counter)
  THEN [i \in DOMAIN counter |->
          IF counter[i][1] = key THEN <<key, value>> ELSE counter[i]]
  ELSE Append(counter, <<key, value>>)

\* self.stats[name] = value, or self.stats['reasons'][name] = value
Stored(st, name, value) ==
  IF name \in Scalars THEN [st EXCEPT ![name] = value]
  ELSE [st EXCEPT !.reasons = SetCount(@, name, value)]

unshared == <<pc, split, processed, kept, output, invalid_json, lines_read,
              current, scored, result, report, sample>>

\* thread w calls process_document(Docs[d])
Call(w, d) ==
  /\ workers[w].doc = 0
  /\ workers' = [workers EXCEPT ![w] =
                   [doc |-> d, todo |-> Additions(d), loaded |-> -1]]
  /\ UNCHANGED <<stats, unshared, cleaning, collecting, splitting, sizing, configuring>>

\* thread w loads the entry its next `+= 1` is about
Load(w) ==
  /\ workers[w].todo # <<>> /\ workers[w].loaded = -1
  /\ workers' = [workers EXCEPT ![w].loaded = Loaded(stats, Head(workers[w].todo))]
  /\ UNCHANGED <<stats, unshared, cleaning, collecting, splitting, sizing, configuring>>

\* thread w stores what it loaded, plus one
Store(w) ==
  /\ workers[w].loaded # -1
  /\ stats' = Stored(stats, Head(workers[w].todo), workers[w].loaded + 1)
  /\ workers' = [workers EXCEPT ![w].todo = Tail(@), ![w].loaded = -1]
  /\ UNCHANGED <<unshared, cleaning, collecting, splitting, sizing, configuring>>

InitWorkers ==
  /\ InitPipeline /\ NoCleaning /\ NoSplitting /\ NoSizing
  /\ wanted = None /\ cleaner = None
  /\ workers = [w \in Threads |-> [doc |-> 0, todo |-> <<>>, loaded |-> -1]]

NextWorkers ==
  \E w \in Threads :
    \/ \E d \in ThreadPool : Call(w, d)
    \/ Load(w)
    \/ Store(w)

SpecWorkers == InitWorkers /\ [][NextWorkers]_vars

-----------------------------------------------------------------------------
(* A DatasetCleaner whose caller means to run with thresholds of its own:  *)
(* __init__ takes the two directories and nothing else, the thresholds are *)
(* attributes the caller assigns afterwards                                *)

MaxCalls == 2     \* calls of process_document

\* what the caller sets min_word_count and max_word_count to
Configurations ==
  {[thresholds EXCEPT !.min_word_count = a, !.max_word_count = b] :
     a \in {-1, 3, 60}, b \in {50, 50000}}

\* the documents processed: 9 has 3 words, 13 and 14 have 50
ConfigPool == {9, 13, 14}

\* DatasetCleaner(): lines 28-115 check nothing and raise nothing
Construct ==
  /\ cleaner = None
  /\ cleaner' = thresholds
  /\ UNCHANGED <<wanted, pipeline, cleaning, collecting, splitting, sizing, workers>>

\* cleaner.min_word_count = ...; cleaner.max_word_count = ...
SetThresholds ==
  /\ cleaner # None /\ cleaner # wanted /\ stats.total_input = 0
  /\ cleaner' = wanted
  /\ UNCHANGED <<wanted, pipeline, cleaning, collecting, splitting, sizing, workers>>

\* the variables after a call of process_document(Docs[d])
Returned(call, d) ==
  /\ stats' = call.stats
  /\ current' = d
  /\ scored' = call.scored
  /\ result' = call.result

\* cleaner.process_document(Docs[d])
ProcessUnder(d) ==
  /\ cleaner # None /\ stats.total_input < MaxCalls
  /\ Returned(Processed(stats, d, ScoreUnder(cleaner, Docs[d], cleaned_of[d])), d)
  /\ UNCHANGED <<wanted, cleaner, pc, split, processed, kept, output,
                 invalid_json, lines_read, report, sample, cleaning, collecting, splitting,
                 sizing, workers>>

InitConfig ==
  /\ InitPipeline /\ NoCleaning /\ NoSplitting /\ NoSizing
  /\ workers = <<>>
  /\ wanted \in Configurations /\ cleaner = None

NextConfig ==
  \/ Construct
  \/ SetThresholds
  \/ \E d \in ConfigPool : ProcessUnder(d)

SpecConfig == InitConfig /\ [][NextConfig]_vars

-----------------------------------------------------------------------------
(* The hard-rejection conditions of calculate_quality_score, each on its   *)
(* own, on the normalized content                                          *)

ConditionOrder ==
  <<"empty", "broken_encoding", "spam_content", "bad_file_path", "too_short",
    "too_long", "words_too_short", "words_too_long", "sentences_too_short">>

Holds(condition, doc, text) ==
  CASE condition = "empty"           -> text = <<>>
    [] condition = "broken_encoding" -> is_broken_encoding(text)
    [] condition = "spam_content"    -> contains_spam(text)
    [] condition = "bad_file_path"   -> is_bad_file(Get(doc, "file_path", <<>>))
    [] condition = "too_short"       -> WordCount(text) < min_word_count
    [] condition = "too_long"        -> WordCount(text) > max_word_count
    [] condition = "words_too_short" ->
         AverageBelow(WordChars(text), WordCount(text), min_avg_word_length)
    [] condition = "words_too_long"  ->
         AverageAbove(WordChars(text), WordCount(text), max_avg_word_length)
    [] condition = "sentences_too_short" ->
         /\ SentenceCount(text) > 0
         /\ AverageBelow(SentenceWords(text), SentenceCount(text),
                         min_sentence_length)

\* for each document, the places in ConditionOrder of the conditions that hold
hard_of ==
  [d \in DocIds |-> {k \in 1..Len(ConditionOrder) :
                       Holds(ConditionOrder[k], Docs[d], cleaned_of[d])}] \o <<>>

\* the reason that stands for the first condition that holds, "none" when
\* none does; an empty text is empty_content when the content itself is
\* empty or missing, empty_after_cleaning otherwise
FirstReason(d) ==
  IF hard_of[d] = {} THEN "none"
  ELSE IF 1 \in hard_of[d]
  THEN IF Get(Docs[d], "content", <<>>) = <<>> THEN "empty_content"
       ELSE "empty_after_cleaning"
  ELSE ConditionOrder[CHOOSE k \in hard_of[d] : \A j \in hard_of[d] : k <= j]

\* the sum of lines 250-350 for each document no hard condition rejects
raw_of ==
  [d \in DocIds |->
     IF hard_of[d] = {}
     THEN RawPoints(Get(Docs[d], "source", ""), WordCount(cleaned_of[d]),
                    cleaned_of[d])
     ELSE -1] \o <<>>

upvote == <<117, 112, 118, 111, 116, 101>>

\* 'upvote' occurs in t, in any letter case
MentionsUpvote(t) ==
  \E i \in 1..(Len(t) - Len(upvote) + 1) :
    \A k \in 1..Len(upvote) : Lower(t[i + k - 1]) = upvote[k]

upvote_in_content == [d \in DocIds |-> MentionsUpvote(Get(Docs[d], "content", <<>>))] \o <<>>
upvote_in_cleaned == [d \in DocIds |-> MentionsUpvote(cleaned_of[d])] \o <<>>

RECURSIVE SumOver(_, _)
SumOver(counter, items) ==
  IF items = {} THEN 0
  ELSE counter[CHOOSE i \in items : TRUE][2]
         + SumOver(counter, items \ {CHOOSE i \in items : TRUE})

\* sum(counter.values())
Total(counter) == SumOver(counter, DOMAIN counter)

\* this step is a call of process_document
Called == stats'.total_input # stats.total_input

\* the reasons whose count this step changes
Changed ==
  {r \in Keys(stats'.reasons) : Count(stats'.reasons, r) # Count(stats.reasons, r)}

\* this step adds one to the counter of reason and leaves the others alone
CountsOnly(reason) ==
  /\ Changed = {reason}
  /\ Count(stats'.reasons, reason) = Count(stats.reasons, reason) + 1

-----------------------------------------------------------------------------
(* The claims                                                              *)

\* C1: every document process_document returns has quality_score >= 0.5, and
\* no hard-rejection condition holds on its normalized content.
C1_AcceptedMeetsThreshold ==
  result # None => result.quality_score >= 50 /\ hard_of[current] = {}

\* a document has been accepted
C1_Accepted ==
  result # None /\ result.quality_score >= 50 /\ hard_of[current] = {}

\* C2 as stated: for every rejected document exactly one reason counter goes
\* up by one, and it is that of the first hard condition that holds.
C2_FirstConditionRecorded ==
  [][(Called /\ result' = None) => CountsOnly(FirstReason(current'))]_vars

\* C2 as it holds: for every rejected document exactly one reason counter
\* goes up by one: that of the first hard condition that holds, or, when no
\* hard condition holds and the score is below 0.5, quality_passed.
C2_FirstConditionOrQualityPassed ==
  [][(Called /\ result' = None) =>
       CountsOnly(IF FirstReason(current') = "none" THEN "quality_passed"
                  ELSE FirstReason(current'))]_vars

\* a document that is spam and too short has been rejected as spam_content
C2_SpamAndShortRejected ==
  /\ current # 0 /\ result = None
  /\ {3, 5} \subseteq hard_of[current]
  /\ Count(stats.reasons, "spam_content") = 1
  /\ Count(stats.reasons, "too_short") = 0

\* C3: total_input = quality_kept + filtered_out, the reason counts sum to
\* filtered_out, and accepting a document changes no reason counter.
C3_CountersBalance ==
  /\ [](/\ stats.total_input = stats.quality_kept + stats.filtered_out
        /\ Total(stats.reasons) = stats.filtered_out)
  /\ [][(Called /\ result' # None) => stats'.reasons = stats.reasons]_vars

\* a document has been accepted after another was rejected
C3_KeptAndFiltered ==
  stats.quality_kept = 1 /\ stats.filtered_out = 1 /\ result # None

\* C4: the score calculate_quality_score returns lies in [0, 1].
C4_ScoreInUnitInterval ==
  current # 0 => 0 <= scored[1] /\ scored[1] <= 100

\* a document with every bonus clean_text leaves within reach has been
\* scored: source, 200 words, 15 indicators, a header, a list marker
C4_HighestScore ==
  current # 0 /\ scored[1] = 95 /\ raw_of[current] = 95

\* C5: a document of a high-quality source that no hard condition rejects
\* ends with a score >= 0.5, exactly 0.5 where the sum is lower, and is
\* accepted.
C5_HighQualitySourceAccepted ==
  (/\ current # 0
   /\ Get(Docs[current], "source", "") \in high_quality_sources
   /\ hard_of[current] = {})
  => /\ scored[1] >= 50
     /\ raw_of[current] < 50 => scored[1] = 50
     /\ result # None /\ result.quality_score = scored[1]

\* a document of a high-quality source with a sum of 0.3 has been accepted
\* with the score 0.5
C5_RaisedToFloor ==
  /\ current # 0
  /\ Get(Docs[current], "source", "") \in high_quality_sources
  /\ raw_of[current] = 30 /\ scored[1] = 50
  /\ result # None

\* C6 as stated: a document whose content contains 'upvote' in any letter
\* case is rejected as spam_content unless it is empty or broken encoding.
C6_UpvoteInContentRejected ==
  (current # 0 /\ upvote_in_content[current] /\ hard_of[current] \cap {1, 2} = {})
  => scored = <<0, "spam_content">> /\ result = None

\* C6 as it holds: a document whose normalized content contains 'upvote' in
\* any letter case is rejected as spam_content unless it is empty or broken
\* encoding.
C6_UpvoteInCleanedRejected ==
  (current # 0 /\ upvote_in_cleaned[current] /\ hard_of[current] \cap {1, 2} = {})
  => scored = <<0, "spam_content">> /\ result = None

\* a document that passes every other condition and has 'Upvote' in its
\* text has been rejected
C6_UpvoteRejected ==
  /\ current # 0 /\ upvote_in_cleaned[current]
  /\ hard_of[current] = {3}
  /\ scored = <<0, "spam_content">> /\ result = None

\* C7: a document whose content is empty or missing is rejected as
\* empty_content, one whose content is empty after cleaning as
\* empty_after_cleaning; process_document returns None and counts it once in
\* total_input, once in filtered_out and once under that reason.
C7_EmptyRejected ==
  [][(Called /\ cleaned_of[current'] = <<>>) =>
       LET reason == IF Get(Docs[current'], "content", <<>>) = <<>>
                     THEN "empty_content" ELSE "empty_after_cleaning"
       IN  /\ result' = None
           /\ scored' = <<0, reason>>
           /\ stats'.total_input = stats.total_input + 1
           /\ stats'.filtered_out = stats.filtered_out + 1
           /\ stats'.quality_kept = stats.quality_kept
           /\ CountsOnly(reason)]_vars

\* a document without content and one that is markup alone have been rejected
C7_BothEmptyKinds ==
  /\ Count(stats.reasons, "empty_content") = 1
  /\ Count(stats.reasons, "empty_after_cleaning") = 1
  /\ stats.total_input = 2 /\ stats.filtered_out = 2
  /\ result = None

\* C8: every line that does not parse is counted under malformed_input in
\* the statistics.
C8_MalformedCounted ==
  Count(stats.reasons, "malformed_input") = invalid_json

\* C9: clean_text(clean_text(x)) = clean_text(x).
C9_Idempotent ==
  twice # NotRun => twice = once

\* C10: the output of clean_text holds no control character other than
\* newline, carriage return and tab.
C10_NoControlCharacters ==
  once # NotRun =>
    \A i \in 1..Len(once) :
      once[i] \notin ((0..31) \cup (127..159)) \ {9, 10, 13}

\* the documents handed to create_training_splits, each named by its place
Places == 1..Len(Flatten(all_content))

\* the places in the three splits that hold the document p
PlacesOf(files, p) ==
  {fi \in (1..Len(files)) \X Places :
     fi[2] <= Len(files[fi[1]]) /\ files[fi[1]][fi[2]] = p}

\* the documents of a split
Members(docs) == {docs[i] : i \in 1..Len(docs)}

\* C11: len(train) + len(validation) + len(test) is the number of input
\* documents, the splits are pairwise disjoint, and every document is in
\* exactly one split.
C11_EveryDocumentInOneSplit ==
  split_docs # NotRun =>
    /\ Len(split_docs[1]) + Len(split_docs[2]) + Len(split_docs[3])
         = Len(Flatten(all_content))
    /\ \A f, g \in 1..Len(split_docs) :
         f # g => Members(split_docs[f]) \cap Members(split_docs[g]) = {}
    /\ \A p \in Places : Cardinality(PlacesOf(split_docs, p)) = 1

\* ten documents have been split into 8, 1 and 1
C11_ThreeSplits ==
  /\ split_docs # NotRun
  /\ Len(split_docs[1]) = 8 /\ Len(split_docs[2]) = 1 /\ Len(split_docs[3]) = 1

\* C12: train has floor(0.8 * N) documents, validation floor(0.1 * N), test
\* the rest; for N = 1000 the sizes are 800, 100 and 100.
C12_SizesByTruncation ==
  sizes # NotRun =>
    /\ 10 * sizes[1] <= 8 * total /\ 8 * total < 10 * (sizes[1] + 1)
    /\ 10 * sizes[2] <= total /\ total < 10 * (sizes[2] + 1)
    /\ sizes[3] = total - sizes[1] - sizes[2]
    /\ total = 1000 => sizes = <<800, 100, 100>>

\* 1000 documents have been split
C12_Thousand ==
  total = 1000 /\ sizes = <<800, 100, 100>>

\* C13: two runs on the same documents give the same train, validation and
\* test splits, members and order.
C13_SameSplitsAgain ==
  (previous # NotRun /\ split_docs # NotRun) => split_docs = previous

\* C14: the sizes of the final train, validation and test files are
\* floor(0.8 * A), floor(0.1 * A) and the rest, for A accepted documents.
C14_RatiosOfAccepted ==
  clean_docs # NotRun =>
    /\ 10 * output[1] <= 8 * stats.quality_kept
    /\ 8 * stats.quality_kept < 10 * (output[1] + 1)
    /\ 10 * output[2] <= stats.quality_kept
    /\ stats.quality_kept < 10 * (output[2] + 1)
    /\ output[3] = stats.quality_kept - output[1] - output[2]

EmptyStats ==
  [total_input |-> 0, filtered_out |-> 0, quality_kept |-> 0, reasons |-> <<>>]

\* process_document accepts Docs[d] when it is the only document
AcceptedAlone(d) == process_document(EmptyStats, d).result # None

\* the stats after the documents have been processed in the order of
\* all_content
InOrder(content) ==
  CleanFile([stats |-> EmptyStats, kept |-> <<>>, last |-> 0, call |-> None],
            content, [i \in 1..Len(content) |-> i]).stats

SameCounts(a, b) ==
  /\ a.total_input = b.total_input
  /\ a.filtered_out = b.filtered_out
  /\ a.quality_kept = b.quality_kept
  /\ \A r \in Keys(a.reasons) \cup Keys(b.reasons) :
       Count(a.reasons, r) = Count(b.reasons, r)

\* C15: whatever order the documents are processed in, the documents kept
\* are those process_document accepts on their own, and the counters end
\* with the values they have after processing in the order of the input.
C15_OrderMakesNoDifference ==
  clean_docs # NotRun =>
    /\ Members(clean_docs[1]) \cup Members(clean_docs[2]) \cup Members(clean_docs[3])
         = {p \in Places : AcceptedAlone(Flatten(all_content)[p])}
    /\ Len(clean_docs[1]) + Len(clean_docs[2]) + Len(clean_docs[3])
         = stats.quality_kept
    /\ SameCounts(stats, InOrder(Flatten(all_content)))

\* documents kept and filtered have been processed in another order than
\* that of the input
C15_Reordered ==
  /\ clean_docs # NotRun
  /\ all_docs # [i \in 1..Len(all_docs) |-> i]
  /\ stats.quality_kept >= 2 /\ Cardinality(Keys(stats.reasons)) = 2

\* C16: once every thread has finished its call, total_input is the number
\* of documents processed and total_input = quality_kept + filtered_out.
C16_NoUpdateLost ==
  (\A w \in DOMAIN workers : workers[w].doc # 0 /\ workers[w].todo = <<>>)
  => /\ stats.total_input = Cardinality(DOMAIN workers)
     /\ stats.total_input = stats.quality_kept + stats.filtered_out

\* C17: create_quality_report runs after the last file has been read to its
\* end, and no document is processed once the report exists.
C17_ReportAfterProcessing ==
  [][/\ report' # report => (pc = "next_split" /\ split = Len(splits))
     /\ report # None => (~Called /\ lines_read' = lines_read)]_vars

\* the report has been written after two documents
C17_ReportOfTwo ==
  report # None /\ report.cleaning_summary.total_input_documents = 2

\* C18: retention_rate is quality_kept / total_input, 0 when total_input is
\* 0, and documents_filtered is total_input - documents_kept.
C18_RetentionRate ==
  report # None =>
    /\ report.cleaning_summary.total_input_documents = stats.total_input
    /\ report.cleaning_summary.documents_kept = stats.quality_kept
    /\ report.cleaning_summary.retention_rate.den # 0
    /\ report.cleaning_summary.retention_rate.num * stats.total_input
         = stats.quality_kept * report.cleaning_summary.retention_rate.den
    /\ stats.total_input = 0 => report.cleaning_summary.retention_rate.num = 0
    /\ report.cleaning_summary.documents_filtered
         = report.cleaning_summary.total_input_documents
             - report.cleaning_summary.documents_kept

\* the report of a run that read no document
C18_NothingRead ==
  /\ report # None
  /\ report.cleaning_summary.total_input_documents = 0
  /\ report.cleaning_summary.retention_rate.num = 0
  /\ report.cleaning_summary.retention_rate.den # 0

\* C19: the reasons of the report are listed by count, most frequent first.
C19_ReasonsRanked ==
  report # None =>
    \A i, j \in DOMAIN report.filtering_reasons :
      i < j => report.filtering_reasons[i][2] >= report.filtering_reasons[j][2]

\* a threshold is negative, or a minimum lies above its maximum
Invalid(self) ==
  \/ \E name \in DOMAIN self : self[name] < 0
  \/ self.min_word_count > self.max_word_count
  \/ self.min_avg_word_length > self.max_avg_word_length

\* C20: no document is processed by a cleaner whose thresholds are invalid:
\* such a configuration has been refused before.
C20_InvalidConfigurationRefused ==
  stats.total_input > 0 => ~Invalid(cleaner)

-----------------------------------------------------------------------------
(***************************************************************************)
(* ExpandedCollector.create_corpus_chunks.  A document is the record the   *)
(* collectors build, with its word_count and with bytes, the length of     *)
(* json.dumps(doc).encode('utf-8') as it was collected.  A document's      *)
(* identity is its place in all_documents before the sort.                 *)
(***************************************************************************)
MaxChunkDocs == 3      \* documents handed to create_corpus_chunks

chunk_size_mb == 50

\* chunk_size_mb * 1024 * 1024
chunk_size_bytes == chunk_size_mb * 1024 * 1024

\* the fields of a document of extract_code_documentation
collected_keys == {"source", "file_path", "content", "word_count", "type"}

\* what line 407 adds to the dumped document:  , "source_category": "<source>"
CategoryBytes(source) == 23 + Len(source)

\* len(json.dumps(doc, ensure_ascii=False).encode('utf-8'))
doc_size(doc) ==
  doc.bytes + (IF "source_category" \in doc.keys
               THEN CategoryBytes(doc.source_category) ELSE 0)

\* doc['source_category'] = source
Categorised(doc, source) ==
  [keys |-> doc.keys \cup {"source_category"}, word_count |-> doc.word_count,
   bytes |-> doc.bytes, source_category |-> source]

\* for source, docs in all_content.items(): for doc in docs: the mapping
\* after the assignments of line 407
CategorisedAll(content) ==
  [s \in DOMAIN content |->
     <<content[s][1],
       [i \in DOMAIN content[s][2] |-> Categorised(content[s][2][i], content[s][1])]>>]

\* all_documents, in the order of the appends of line 408
RECURSIVE all_documents(_)
all_documents(content) ==
  IF content = <<>> THEN <<>>
  ELSE Head(content)[2] \o all_documents(Tail(content))

\* the places of all_documents as they were appended
UnsortedPlaces(docs) == [r \in DOMAIN docs |-> r]

\* all_documents.sort(key=lambda x: x['word_count'], reverse=True): the
\* places of all_documents in sorted order; the sort is stable, so documents
\* of one word_count keep their order
SortedPlaces(docs) ==
  [r \in DOMAIN docs |->
     CHOOSE i \in DOMAIN docs :
       Cardinality({j \in DOMAIN docs :
                      \/ docs[j].word_count > docs[i].word_count
                      \/ docs[j].word_count = docs[i].word_count /\ j < i})
         = r - 1]

\* the file corpus_chunk_{chunk_number:03d}.jsonl is written
SaveChunk(st) == st.files @@ (st.chunk_number :> st.current_chunk)

\* for doc in all_documents, and the final chunk: the files written
RECURSIVE Chunked(_, _, _)
Chunked(docs, todo, st) ==
  IF todo = <<>>
  THEN IF st.current_chunk # <<>> THEN SaveChunk(st) ELSE st.files
  ELSE LET size == doc_size(docs[Head(todo)]) IN
       IF st.current_size + size > chunk_size_bytes /\ st.current_chunk # <<>>
       THEN Chunked(docs, Tail(todo),
                    [files |-> SaveChunk(st), current_chunk |-> <<Head(todo)>>,
                     current_size |-> size,
                     chunk_number |-> st.chunk_number + 1])
       ELSE Chunked(docs, Tail(todo),
                    [st EXCEPT !.current_chunk = Append(@, Head(todo)),
                               !.current_size = @ + size])

ChunksOf(docs) ==
  Chunked(docs, SortedPlaces(docs),
          [files |-> <<>>, current_chunk |-> <<>>, current_size |-> 0,
           chunk_number |-> 1])

create_corpus_chunks ==
  /\ chunks = None
  /\ corpus' = CategorisedAll(corpus)
  /\ chunks' = [files |-> ChunksOf(all_documents(corpus'))]
  /\ UNCHANGED <<fast, clones, pipeline, cleaning, splitting, sizing, workers,
                 configuring>>

\* the documents handed over: of 10 or 20 words, and of a size that with its
\* category is half the budget, one byte more, or one byte over the budget
Collected(source) ==
  {[keys |-> collected_keys, word_count |-> w, bytes |-> b] :
     w \in {10, 20},
     b \in {chunk_size_bytes \div 2 - CategoryBytes(source),
            chunk_size_bytes \div 2 - CategoryBytes(source) + 1,
            chunk_size_bytes - CategoryBytes(source) + 1}}

ListsOf(source, n) == [1..n -> Collected(source)]

\* all_content: no source, one source, or two
Corpora ==
  {<<>>}
  \cup UNION {{<<<<"web_scraped", docs>>>> : docs \in ListsOf("web_scraped", n)} :
                n \in 0..MaxChunkDocs}
  \cup UNION {UNION {{<<<<"web_scraped", first>>,
                         <<"code_documentation", second>>>> :
                         first \in ListsOf("web_scraped", n),
                         second \in ListsOf("code_documentation", m)} :
                       m \in 1..(MaxChunkDocs - n)} :
                n \in 0..MaxChunkDocs}

InitChunk ==
  /\ NoPipeline /\ NoCleaning /\ NoSplitting /\ NoSizing /\ NoWorkers
  /\ fast = None /\ clones = None
  /\ corpus \in Corpora
  /\ chunks = None

NextChunk == create_corpus_chunks

SpecChunk == InitChunk /\ [][NextChunk]_vars

-----------------------------------------------------------------------------
(***************************************************************************)
(* fast_clean.py: FastCleaner.  A document is described by what            *)
(* should_keep and process_file read of it: the number of words of its     *)
(* content, the length of the stripped content, whether is_junk holds,     *)
(* its source, whether a technical keyword occurs in it, and the number of *)
(* words of clean_text(content).                                           *)
(***************************************************************************)
MaxFastLines == 2      \* lines of one input file of the FastCleaner

min_words == 30
max_words == 20000

\* the good_sources and the other sources that occur in FastDocs
good_sources == {"mdn_content", "owasp", "openai_cookbook", "langchain",
                 "huggingface_course", "react_docs", "vue_docs", "nextjs_docs",
                 "kubernetes_docs", "system_design_primer",
                 "clean_code_javascript", "javascript_algorithms",
                 "python_patterns", "web_fundamentals"}

FastDocs == <<
  \* 1: forty words of a good source
  [words |-> 40, stripped |-> 200, junk |-> FALSE, source |-> "owasp",
   technical |-> FALSE, clean_words |-> 40],
  \* 2: forty words of another source, 'function' among them
  [words |-> 40, stripped |-> 200, junk |-> FALSE, source |-> "blog",
   technical |-> TRUE, clean_words |-> 40],
  \* 3: forty words of another source, none of them technical
  [words |-> 40, stripped |-> 200, junk |-> FALSE, source |-> "blog",
   technical |-> FALSE, clean_words |-> 40],
  \* 4: ten words
  [words |-> 10, stripped |-> 60, junk |-> FALSE, source |-> "owasp",
   technical |-> TRUE, clean_words |-> 10],
  \* 5: forty words, 'upvote' among them
  [words |-> 40, stripped |-> 200, junk |-> TRUE, source |-> "owasp",
   technical |-> TRUE, clean_words |-> 40],
  \* 6: thirty words, five of them HTML tags
  [words |-> 30, stripped |-> 150, junk |-> FALSE, source |-> "owasp",
   technical |-> TRUE, clean_words |-> 25],
  \* 7: content of spaces alone
  [words |-> 0, stripped |-> 0, junk |-> FALSE, source |-> "owasp",
   technical |-> FALSE, clean_words |-> 0]
>>

should_keep(doc) ==
  IF doc.stripped < 50 THEN FALSE
  ELSE IF doc.words < min_words \/ doc.words > max_words THEN FALSE
  ELSE IF doc.junk THEN FALSE
  ELSE IF doc.source \in good_sources THEN TRUE
  ELSE doc.technical

\* the document is written to the output file
Written(doc) ==
  should_keep(doc) /\ doc.clean_words > 0 /\ doc.clean_words >= min_words

\* a line of an input file: blank, not JSON, or the place in FastDocs of the
\* document it holds
BlankLine   == 0
InvalidLine == -1
FastLines   == {BlankLine, InvalidLine} \cup DOMAIN FastDocs

\* for line in f_in: processed and kept after the lines, and the documents
\* written to f_out
RECURSIVE FastRead(_, _)
FastRead(lines, st) ==
  IF lines = <<>> THEN st
  ELSE IF Head(lines) \in {BlankLine, InvalidLine} THEN FastRead(Tail(lines), st)
  ELSE FastRead(Tail(lines),
                IF Written(FastDocs[Head(lines)])
                THEN [processed |-> st.processed + 1, kept |-> st.kept + 1,
                      f_out |-> Append(st.f_out, Head(lines))]
                ELSE [st EXCEPT !.processed = @ + 1])

\* kept/processed*100 and self.stats['kept']/self.stats['total']*100, which
\* raise ZeroDivisionError when the divisor is 0
Raises(num, den) == den = 0
Percent(num, den) == [num |-> 100 * num, den |-> den]

fast_splits == <<"train.jsonl", "validation.jsonl", "test.jsonl">>

\* process_file(input_file, output_file) for the next split, its input file
\* holding lines: the exception of line 162 leaves clean_all
process_file(lines) ==
  /\ fast.pc = "splits" /\ fast.split < Len(fast_splits)
  /\ LET read == FastRead(lines, [processed |-> 0, kept |-> 0, f_out |-> <<>>])
     IN  IF Raises(read.kept, read.processed)
         THEN fast' = [fast EXCEPT !.pc = "raised",
                                   !.raised = "ZeroDivisionError",
                                   !.split = @ + 1,
                                   !.files = Append(@, read.f_out)]
         ELSE fast' = [fast EXCEPT !.split = @ + 1,
                                   !.files = Append(@, read.f_out),
                                   !.stats.total = @ + read.processed,
                                   !.stats.kept = @ + read.kept,
                                   !.stats.filtered =
                                     @ + read.processed - read.kept]
  /\ UNCHANGED <<corpus, chunks, clones, pipeline, cleaning, splitting, sizing,
                 workers, configuring>>

\* the input file of the next split does not exist
FileNotFound ==
  /\ fast.pc = "splits" /\ fast.split < Len(fast_splits)
  /\ fast' = [fast EXCEPT !.split = @ + 1, !.files = Append(@, NotRun)]
  /\ UNCHANGED <<corpus, chunks, clones, pipeline, cleaning, splitting, sizing,
                 workers, configuring>>

\* the summary of clean_all, lines 181-199
Summary ==
  /\ fast.pc = "splits" /\ fast.split = Len(fast_splits)
  /\ IF Raises(fast.stats.kept, fast.stats.total)
     THEN fast' = [fast EXCEPT !.pc = "raised", !.raised = "ZeroDivisionError"]
     ELSE fast' = [fast EXCEPT !.pc = "done",
                               !.retention = Percent(fast.stats.kept,
                                                     fast.stats.total)]
  /\ UNCHANGED <<corpus, chunks, clones, pipeline, cleaning, splitting, sizing,
                 workers, configuring>>

InitFast ==
  /\ NoPipeline /\ NoCleaning /\ NoSplitting /\ NoSizing /\ NoWorkers
  /\ corpus = <<>> /\ chunks = None /\ clones = None
  /\ fast = [stats |-> [total |-> 0, kept |-> 0, filtered |-> 0],
             pc |-> "splits", split |-> 0, files |-> <<>>, raised |-> "",
             retention |-> None]

NextFast ==
  \/ \E n \in 0..MaxFastLines : \E lines \in [1..n -> FastLines] :
       process_file(lines)
  \/ FileNotFound
  \/ Summary

SpecFast == InitFast /\ [][NextFast]_vars

-----------------------------------------------------------------------------
(***************************************************************************)
(* ExpandedDataCollector.clone_repositories: one future for each           *)
(* repository, run by the threads of the pool, and the main thread         *)
(* counting the results as the futures complete.                           *)
(***************************************************************************)
MaxRepos == 5          \* repositories of self.repos

max_workers == 4

Repos == 1..MaxRepos

Statuses == {"exists", "success", "failed"}

Running(futures) == {r \in Repos : futures[r] = "running"}

\* a thread of the pool takes the next work item of the queue, in the order
\* of the submissions, when fewer than max_workers threads are busy
StartClone(r) ==
  /\ clones.pc = "collecting"
  /\ clones.futures[r] = "pending"
  /\ \A q \in Repos : q < r => clones.futures[q] # "pending"
  /\ Cardinality(Running(clones.futures)) < max_workers
  /\ clones' = [clones EXCEPT !.futures[r] = "running"]
  /\ UNCHANGED <<corpus, chunks, fast, pipeline, cleaning, splitting, sizing,
                 workers, configuring>>

\* clone_single_repo returns (name, status): the directory exists, git clone
\* succeeds, or it exits with an error (CalledProcessError)
clone_single_repo(r, status) ==
  /\ clones.futures[r] = "running"
  /\ clones' = [clones EXCEPT !.futures[r] = status]
  /\ UNCHANGED <<corpus, chunks, fast, pipeline, cleaning, splitting, sizing,
                 workers, configuring>>

\* the loop over as_completed stopping at the first failed clone
Tally_stopping(r) ==
  /\ clones.pc = "collecting"
  /\ clones.futures[r] \in Statuses /\ r \notin clones.tallied
  /\ IF clones.futures[r] = "failed"
     THEN clones' = [clones EXCEPT !.pc = "done"]
     ELSE clones' = [clones EXCEPT !.tallied = @ \cup {r},
                                   !.results[clones.futures[r]] = @ + 1]
  /\ UNCHANGED <<corpus, chunks, fast, pipeline, cleaning, splitting, sizing,
                 workers, configuring>>

\* for future in as_completed(futures): results[status] += 1
Tally(r) ==
  /\ clones.pc = "collecting"
  /\ clones.futures[r] \in Statuses /\ r \notin clones.tallied
  /\ clones' = [clones EXCEPT !.tallied = @ \cup {r},
                              !.results[clones.futures[r]] = @ + 1]
  /\ UNCHANGED <<corpus, chunks, fast, pipeline, cleaning, splitting, sizing,
                 workers, configuring>>

\* every future has been yielded: the executor is left and the tallies logged
CloningComplete ==
  /\ clones.pc = "collecting" /\ clones.tallied = Repos
  /\ clones' = [clones EXCEPT !.pc = "done"]
  /\ UNCHANGED <<corpus, chunks, fast, pipeline, cleaning, splitting, sizing,
                 workers, configuring>>

InitClone ==
  /\ NoPipeline /\ NoCleaning /\ NoSplitting /\ NoSizing /\ NoWorkers
  /\ corpus = <<>> /\ chunks = None /\ fast = None
  /\ clones = [futures |-> [r \in Repos |-> "pending"], tallied |-> {},
               results |-> [success |-> 0, exists |-> 0, failed |-> 0],
               pc |-> "collecting"]

NextClone ==
  \/ \E r \in Repos : StartClone(r)
  \/ \E r \in Repos, status \in Statuses : clone_single_repo(r, status)
  \/ \E r \in Repos : Tally(r)
  \/ CloningComplete

SpecClone == InitClone /\ [][NextClone]_vars

\* f.write(json.dumps(chunk_doc, ensure_ascii=False) + '\n') for the documents
\* of one chunk: the bytes of the file
RECURSIVE BytesWritten(_, _)
BytesWritten(docs, chunk) ==
  IF chunk = <<>> THEN 0
  ELSE doc_size(docs[Head(chunk)]) + 1 + BytesWritten(docs, Tail(chunk))

\* C21: every chunk file is byte-bounded: the bytes written to it do not
\* exceed chunk_size_bytes, unless the chunk is one single document that
\* alone exceeds the budget; and no chunk is empty.
C21_ChunksWithinBudget ==
  chunks # None =>
    \A n \in DOMAIN chunks.files :
      /\ chunks.files[n] # <<>>
      /\ \/ BytesWritten(all_documents(corpus), chunks.files[n]) <= chunk_size_bytes
         \/ /\ Len(chunks.files[n]) = 1
            /\ doc_size(all_documents(corpus)[chunks.files[n][1]]) > chunk_size_bytes

\* C22: create_corpus_chunks leaves every document record and the all_content
\* mapping as they were, so create_training_splits saves the same records
\* whether or not the chunks were made first.
C22_ChunkingLeavesRecords == [][corpus' = corpus]_vars

\* the chunk files read in the order of their numbers 1, 2, 3, ...
RECURSIVE ReadChunks(_, _)
ReadChunks(files, n) ==
  IF n \notin DOMAIN files THEN <<>> ELSE files[n] \o ReadChunks(files, n + 1)

\* C27: every document is in exactly one chunk, the chunks are numbered
\* 1, 2, 3, ... without gaps, the documents read in the order of the chunks
\* are in non-increasing word_count order, and no chunk is written when there
\* is no document.
C27_EveryDocumentOnceInOrder ==
  chunks # None =>
    LET docs == all_documents(corpus)
        read == ReadChunks(chunks.files, 1)
    IN  /\ DOMAIN chunks.files = 1..Cardinality(DOMAIN chunks.files)
        /\ Len(read) = Len(docs)
        /\ \A p \in DOMAIN docs : Cardinality({i \in DOMAIN read : read[i] = p}) = 1
        /\ \A i, j \in DOMAIN read :
             i < j => docs[read[i]].word_count >= docs[read[j]].word_count
        /\ docs = <<>> => DOMAIN chunks.files = {}

\* three documents appended out of order, written to more than one chunk
C27_ThreeInTwoChunks ==
  /\ chunks # None
  /\ Len(all_documents(corpus)) = 3
  /\ all_documents(corpus)[1].word_count < all_documents(corpus)[2].word_count
  /\ Cardinality(DOMAIN chunks.files) >= 2

\* the places in ConditionOrder of spam, bad file path and the length limits
SpamPathLength == {3, 4, 5, 6}

\* C23: a document on which a hard-rejection condition holds is scored 0 and
\* rejected, whatever its source: the bonus and the floor of the
\* high-quality sources are not applied to it.
C23_HardRejectionScoresZero ==
  (current # 0 /\ hard_of[current] # {}) => scored[1] = 0 /\ result = None

\* a document of a high-quality source with spam, a bad file path or too few
\* words has been rejected with score 0
C23_AllowListedRejected ==
  /\ current # 0
  /\ Get(Docs[current], "source", "") \in high_quality_sources
  /\ hard_of[current] # {} /\ hard_of[current] \subseteq SpamPathLength
  /\ scored[1] = 0 /\ result = None

\* the reasons of the hard rejections
HardReasons ==
  {"empty_content", "empty_after_cleaning"}
    \cup {ConditionOrder[k] : k \in 2..Len(ConditionOrder)}

\* C24: a document with no hard rejection that scores below 0.5 is
\* discarded: process_document returns None, adds one to filtered_out and
\* adds one to exactly one reason, which is not a hard-rejection reason.
C24_LowScoreDiscarded ==
  [][(Called /\ hard_of[current'] = {} /\ scored'[1] < 50) =>
       /\ result' = None
       /\ stats'.filtered_out = stats.filtered_out + 1
       /\ \E reason \in Keys(stats'.reasons) \ HardReasons : CountsOnly(reason)]_vars

\* a document with no hard rejection has been discarded for its score
C24_DiscardedForScore ==
  /\ current # 0 /\ hard_of[current] = {} /\ scored[1] < 50
  /\ result = None /\ stats.filtered_out >= 1
  /\ Keys(stats.reasons) \ HardReasons # {}

\* C25: the record of an accepted document holds the non-empty normalized
\* text of the input content, the number of its words, which is within
\* [min_word_count, max_word_count], and the source, file_path and metadata of
\* the input; no document that reaches the threshold is rejected as empty
\* after cleaning.
C25_AcceptedRecord ==
  /\ result # None =>
       /\ result.content = cleaned_of[current]
       /\ result.content # <<>>
       /\ result.word_count = WordCount(result.content)
       /\ min_word_count <= result.word_count
       /\ result.word_count <= max_word_count
       /\ result.source = Get(Docs[current], "source", "")
       /\ result.file_path = Get(Docs[current], "file_path", <<>>)
       /\ result.metadata = Get(Docs[current], "metadata", <<>>)
  /\ (current # 0 /\ scored[1] >= 50) => result # None

\* a document with metadata whose content cleaning changed has been accepted
C25_AcceptedWithMetadata ==
  /\ result # None
  /\ result.metadata # <<>>
  /\ result.content # Get(Docs[current], "content", <<>>)

\* re.search(r'```\w*\n.*?\n```', content, re.DOTALL) on the input content
fenced_in_content ==
  [d \in DocIds |-> Search(re_code_block, Get(Docs[d], "content", <<>>))] \o <<>>

\* the bonuses of a document for its source, length, technical words, header
\* and list markers
OtherBonuses(source, clean_content) ==
  SourceBonus(source) + LengthBonus(WordCount(clean_content))
    + TechBonus(clean_content, Chars(clean_content))
    + (IF Search(re_header, clean_content) THEN 10 ELSE 0)
    + (IF Search(re_list, clean_content) THEN 5 ELSE 0)

\* C26: a document that passes the hard rejections and whose content holds a
\* fenced code block has the bonus of 0.2 in its score, on top of its other
\* bonuses.
C26_FencedBlockRewarded ==
  (current # 0 /\ hard_of[current] = {} /\ fenced_in_content[current]) =>
    raw_of[current]
      = OtherBonuses(Get(Docs[current], "source", ""), cleaned_of[current]) + 20

\* C28: no step resets or decreases total_input, quality_kept, filtered_out
\* or the count of a reason, and each call of process_document adds exactly
\* one to total_input.
C28_CountersNeverDecrease ==
  [][/\ stats'.total_input >= stats.total_input
     /\ stats'.quality_kept >= stats.quality_kept
     /\ stats'.filtered_out >= stats.filtered_out
     /\ \A reason \in Keys(stats.reasons) :
          Count(stats'.reasons, reason) >= Count(stats.reasons, reason)
     /\ stats'.total_input =
          stats.total_input + (IF processed' = processed + 1 THEN 1 ELSE 0)]_vars

\* two documents have been processed, the second from the second file
C28_SecondFile ==
  split = 2 /\ processed = 1 /\ stats.total_input = 2

\* C29: the fast-path cleaner completes without error also on empty input --
\* a file with no parsable document, or no document in any split -- and
\* stats.total = stats.kept + stats.filtered after any calls of process_file.
C29_EmptyInputCompletes ==
  fast # None =>
    /\ fast.raised = ""
    /\ fast.stats.total = fast.stats.kept + fast.stats.filtered

\* the repositories whose future holds status
WithStatus(status) == {r \in Repos : clones.futures[r] = status}

=============================================================================
